---------------------------- MODULE Spec2Model ----------------------------
(***************************************************************************)
(* Model of the statistical comparison engine of ai-agent-evals            *)
(* (src/analysis/analysis.py): the EvaluationResult container, the         *)
(* confidence interval calculator EvaluationScoreCI, the paired comparison *)
(* EvaluationScoreComparison and its treatment_effect classification.      *)
(*                                                                         *)
(* Numbers.  A score cell holds a multiple of one tenth: the integer v     *)
(* stands for the number v/10, so 0, 5, 10 are 0.0, 0.5, 1.0 and the       *)
(* booleans False, True are 0, 10.  A missing cell (None / NaN) is         *)
(* Missing.  Where the code compares a computed float with 0 (the standard *)
(* deviation of the differences) the model computes the IEEE doubles the   *)
(* test sees.  Every other derived float (a mean, a bound, a p-value) is a *)
(* record [kind, num, den]: kind "num" is the rational num/den (den > 0),  *)
(* kind "nan" is the float NaN and kind "none" is Python's None.           *)
(***************************************************************************)
EXTENDS Integers, Sequences, FiniteSets, TLC

(***************************************************************************)
(* Bounds of the model.                                                    *)
(***************************************************************************)
MaxRows == 2
MaxId == 2

(***************************************************************************)
(* Program constants.                                                      *)
(***************************************************************************)
SAMPLE_SIZE_THRESHOLD == 10
TEST_ID == "inputs.id"
COL_SCORE == "outputs.fluency.score"

\* The encoding of cells: Scale is the integer that stands for 1.0.
Scale == 10
Missing == -1
FalseCell == 0
TrueCell == Scale
Vals == {0, Scale \div 2, Scale}
Cells == Vals \cup {Missing}
Ids == 1..MaxId

(***************************************************************************)
(* Floats as rationals, with NaN and None.                                 *)
(***************************************************************************)
Rat(n, d) == [kind |-> "num", num |-> n, den |-> d]
NaN == [kind |-> "nan", num |-> 0, den |-> 1]
None == [kind |-> "none", num |-> 0, den |-> 1]
IsNum(a) == a.kind = "num"
isnan(a) == a.kind = "nan"
\* Float comparisons: every comparison with NaN is false.
Lt(a, b) == IsNum(a) /\ IsNum(b) /\ a.num * b.den < b.num * a.den
Le(a, b) == IsNum(a) /\ IsNum(b) /\ a.num * b.den <= b.num * a.den
Gt(a, b) == Lt(b, a)
Ge(a, b) == Le(b, a)
Eq(a, b) == IsNum(a) /\ IsNum(b) /\ a.num * b.den = b.num * a.den
\* a - b on floats: NaN propagates.
Sub(a, b) ==
    IF IsNum(a) /\ IsNum(b)
    THEN Rat(a.num * b.den - b.num * a.den, a.den * b.den)
    ELSE NaN
Add(a, b) ==
    IF IsNum(a) /\ IsNum(b)
    THEN Rat(a.num * b.den + b.num * a.den, a.den * b.den)
    ELSE NaN
Zero == Rat(0, 1)
One == Rat(1, 1)

\* Largest r in lo..hi with r * r <= x (lo * lo <= x): the floor of sqrt(x).
RECURSIVE IsqrtIn(_, _, _)
IsqrtIn(x, lo, hi) ==
    IF lo >= hi THEN lo
    ELSE LET mid == (lo + hi + 1) \div 2
         IN  IF mid * mid <= x THEN IsqrtIn(x, mid, hi) ELSE IsqrtIn(x, lo, mid - 1)
Isqrt(x) == IsqrtIn(x, 0, IF x < 40000 THEN x ELSE 40000)

(***************************************************************************)
(* Tables (pandas DataFrame): the set of column names and the rows.  A row *)
(* is [id, score]; the field of an absent column holds a filler (id 0,     *)
(* score Missing) that no operator reads.                                  *)
(***************************************************************************)
RowsOver(idset, cellset) ==
    UNION {[1..n -> [id : idset, score : cellset]] : n \in 0..MaxRows}
AllCols == {TEST_ID, COL_SCORE}
Tables ==
    UNION {
        {[cols |-> cs, rows |-> r] :
            r \in RowsOver(IF TEST_ID \in cs THEN Ids ELSE {0},
                           IF COL_SCORE \in cs THEN Cells ELSE {Missing})}
        : cs \in SUBSET AllCols}

\* df.empty: some axis has length zero.
empty(df) == Len(df.rows) = 0 \/ df.cols = {}
\* df[TEST_ID].duplicated().any()
duplicated_any(df) ==
    \E i, j \in 1..Len(df.rows) : i < j /\ df.rows[i].id = df.rows[j].id
shape0(df) == Len(df.rows)

(***************************************************************************)
(* EvaluationResult.__post_init__: "ok" or the message of the ValueError.  *)
(***************************************************************************)
NONE == "<None>"
VariantArgs == {NONE, "", "base", "new"}

post_init_dup(variant, df) ==
    IF variant = NONE \/ variant = "" THEN "variant cannot be empty or missing"
    ELSE IF empty(df) THEN "df_result cannot be empty"
    ELSE IF TEST_ID \notin df.cols THEN "inputs.id column is required in df_result"
    ELSE "ok"

post_init(variant, df) ==
    IF variant = NONE \/ variant = "" THEN "variant cannot be empty or missing"
    ELSE IF empty(df) THEN "df_result cannot be empty"
    ELSE IF TEST_ID \notin df.cols THEN "inputs.id column is required in df_result"
    ELSE IF duplicated_any(df) THEN "inputs.id column must be unique"
    ELSE "ok"

EvaluationResult(variant, df) ==
    [variant |-> variant, df_result |-> df, ai_foundry_url |-> NONE]

(***************************************************************************)
(* Columns (pandas Series) of a table.                                     *)
(***************************************************************************)
Column(df) == [i \in 1..Len(df.rows) |-> df.rows[i].score]

RECURSIVE SumSeq(_)
SumSeq(s) == IF s = <<>> THEN 0 ELSE Head(s) + SumSeq(Tail(s))
\* The cells that are not missing, as pandas' reductions see a column (skipna).
RECURSIVE dropna(_)
dropna(s) ==
    IF s = <<>> THEN <<>>
    ELSE IF Head(s) = Missing THEN dropna(Tail(s))
    ELSE <<Head(s)>> \o dropna(Tail(s))
isnull_any(s) == \E i \in 1..Len(s) : s[i] = Missing
\* Series.count(): the number of cells that are not missing.
count(s) == Len(dropna(s))
\* Series.sum(), in tenths.
sum(s) == SumSeq(dropna(s))
\* Series.mean(): NaN when no cell is left.
mean(s) == IF count(s) = 0 THEN NaN ELSE Rat(sum(s), Scale * count(s))
\* m * sum(x^2) - sum(x)^2 over the cells that are not missing (in hundredths):
\* the sample variance is this over Scale^2 * m * (m - 1).
Squares(s) == [i \in 1..Len(s) |-> s[i] * s[i]]
Spread(s) == count(s) * SumSeq(Squares(dropna(s))) - sum(s) * sum(s)

(***************************************************************************)
(* Scores.                                                                 *)
(***************************************************************************)
Ordinal == "Ordinal"
Continuous == "Continuous"
Boolean == "Boolean"
EvaluationScoreDataType == {Ordinal, Continuous, Boolean}
Increase == "Increase"
Decrease == "Decrease"
Neutral == "Neutral"
DesiredDirection == {Increase, Decrease, Neutral}
EvaluationScore ==
    [name : {"fluency"}, evaluator : {"fluency"}, field : {"score"},
     data_type : EvaluationScoreDataType, desired_direction : DesiredDirection]
\* f"outputs.{score.evaluator}.{score.field}"
col_score(score) == COL_SCORE

(***************************************************************************)
(* EvaluationScoreCI.                                                      *)
(***************************************************************************)
\* scipy.stats.t.ppf(0.975, df), in hundredths; NaN (here 0, never read) at df = 0.
TPpfTable == <<1271, 430, 318, 278, 257, 245, 236, 231, 226, 223, 220, 218>>
t_ppf(df) == IF df <= Len(TPpfTable) THEN TPpfTable[df] ELSE 216

\* z_ao2 * stderr in hundredths (rounded down), stderr = data.std() / count ** 0.5.
HalfWidth(data, n) ==
    LET m == count(data)
        z == t_ppf(n - 1)
    IN  Isqrt((z * z * Spread(data)) \div (Scale * Scale * m * (m - 1) * n))

\* The continuous branch of _compute_ci: <<mean, ci_lower, ci_upper>>.
ContinuousCI(data, n) ==
    LET mu == mean(data)
        defined == count(data) >= 2 /\ n >= 2
        hw == IF defined THEN Rat(HalfWidth(data, n), 100) ELSE NaN
    IN  <<mu, Sub(mu, hw), Add(mu, hw)>>

\* binomtest(k, n).proportion_ci(0.95, method="wilsoncc"), in thousandths:
\* z = 1.960, z^2 = 3.842.
WilsonLow(k, n) ==
    IF k = 0 THEN Zero
    ELSE LET d == 3842 - 2000 + (1000 * (4 * k * (n - k + 1) - 1)) \div n
             zs == (1960 * Isqrt(1000 * d)) \div 1000
         IN  Rat(2000 * k + 3842 - 1000 - zs, 2 * (1000 * n + 3842))
WilsonHigh(k, n) ==
    IF k = n THEN One
    ELSE LET d == 3842 + 2000 + (1000 * (4 * k * (n - k - 1) - 1)) \div n
             zs == (1960 * Isqrt(1000 * d)) \div 1000
         IN  Rat(2000 * k + 3842 + 1000 + zs, 2 * (1000 * n + 3842))

\* A column binomtest accepts: every cell left is False or True.
AllBool(data) == \A i \in 1..Len(data) : data[i] \in {FalseCell, TrueCell, Missing}

\* The boolean branch of _compute_ci: k = data.sum(), n = data.count().
BooleanCI(data) ==
    LET k == sum(data) \div Scale
        n == count(data)
    IN  <<Rat(k, n), WilsonLow(k, n), WilsonHigh(k, n)>>

NoScore == [name |-> "", evaluator |-> "", field |-> "", data_type |-> "",
            desired_direction |-> ""]
NoCI == [score |-> NoScore, variant |-> NONE, count |-> 0,
         mean |-> None, ci_lower |-> None, ci_upper |-> None]

\* How EvaluationScoreCI(result, score) ends: "ok" or the error raised.
\* binomtest rejects a sum that is no integer (a column with a fractional
\* cell) with a TypeError and a count of 0 (every cell missing) with a
\* ValueError; with a data type that is none of the three, no branch of
\* _compute_ci assigns mean and `self.mean = mean` fails.
ci_error(result, score) ==
    LET data == Column(result.df_result)
    IN  IF col_score(score) \notin result.df_result.cols
        THEN "ValueError: score column is required in result"
        ELSE IF score.data_type = Boolean /\ ~AllBool(data)
        THEN "TypeError: k must be an integer"
        ELSE IF score.data_type = Boolean /\ count(data) = 0
        THEN "ValueError: n must be at least 1"
        ELSE IF score.data_type \notin EvaluationScoreDataType
        THEN "UnboundLocalError: local variable 'mean' referenced before assignment"
        ELSE "ok"

count_nonnull(result) == count(Column(result.df_result))

ci_count(result) == shape0(result.df_result)

compute_ci_swapped(data, data_type, n) ==
    IF data_type = Boolean THEN BooleanCI(data)
    ELSE IF data_type = Continuous
    THEN <<ContinuousCI(data, n)[1], ContinuousCI(data, n)[3], ContinuousCI(data, n)[2]>>
    ELSE <<mean(data), None, None>>

\* _compute_ci: <<mean, ci_lower, ci_upper>>.
compute_ci(data, data_type, n) ==
    IF data_type = Boolean THEN BooleanCI(data)
    ELSE IF data_type = Continuous THEN ContinuousCI(data, n)
    ELSE <<mean(data), None, None>>

EvaluationScoreCI(result, score) ==
    LET n == ci_count(result)
        r == compute_ci(Column(result.df_result), score.data_type, n)
    IN  [score |-> score, variant |-> result.variant, count |-> n,
         mean |-> r[1], ci_lower |-> r[2], ci_upper |-> r[3]]

(***************************************************************************)
(* EvaluationScoreComparison.                                              *)
(***************************************************************************)
\* df_c.merge(df_t, how="inner", on=TEST_ID): the rows of the control whose
\* identity the treatment has, in the control's order, as pairs of cells.
RECURSIVE merge(_, _)
merge(rows_c, rows_t) ==
    IF rows_c = <<>> THEN <<>>
    ELSE LET r == Head(rows_c)
             hit == {j \in 1..Len(rows_t) : rows_t[j].id = r.id}
         IN  (IF hit = {} THEN <<>>
              ELSE <<[id |-> r.id, score_c |-> r.score,
                      score_t |-> rows_t[CHOOSE j \in hit : TRUE].score]>>)
             \o merge(Tail(rows_c), rows_t)

score_c(paired) == [i \in 1..Len(paired) |-> paired[i].score_c]
score_t(paired) == [i \in 1..Len(paired) |-> paired[i].score_t]
Max(a, b) == IF a >= b THEN a ELSE b
Min(a, b) == IF a <= b THEN a ELSE b
Abs(n) == IF n < 0 THEN -n ELSE n

\* numpy's round of d tenths to an integer (ties to even), in tenths again.
\* d is the difference of two cells between 0.0 and 1.0; the float the code
\* rounds lies within 2^-53 of it and, where d is one half, never above it
\* (0.7 - 0.2 is 0.49999999999999994), so it rounds as d does.
round(d) ==
    LET q == d \div Scale
        r == d % Scale
    IN  IF 2 * r < Scale THEN q * Scale
        ELSE IF 2 * r > Scale THEN (q + 1) * Scale
        ELSE IF q % 2 = 0 THEN q * Scale ELSE (q + 1) * Scale

diff(paired) == [i \in 1..Len(paired) |-> paired[i].score_t - paired[i].score_c]
all_zero(d) == \A i \in 1..Len(d) : d[i] = 0

\* Binomial coefficients and the binomial distribution at p = 0.5, as
\* numerators over 2^n.
RECURSIVE Choose(_, _)
Choose(n, k) ==
    IF k < 0 \/ k > n THEN 0
    ELSE IF k = 0 THEN 1
    ELSE (Choose(n - 1, k - 1) * n) \div k
RECURSIVE CdfNum(_, _)
CdfNum(k, n) == IF k < 0 THEN 0 ELSE Choose(n, k) + CdfNum(k - 1, n)
RECURSIVE Pow2(_)
Pow2(n) == IF n = 0 THEN 1 ELSE 2 * Pow2(n - 1)

\* The exact McNemar test, without the mid-p correction.
mcnemar_exact(n12, n21) ==
    LET n == n12 + n21
    IN  IF 2 * CdfNum(Min(n12, n21), n) >= Pow2(n) THEN One
        ELSE Rat(2 * CdfNum(Min(n12, n21), n), Pow2(n))

\* Twice the lower tail alone, the mid-p correction left out.
mcnemar_two_tails(n12, n21) ==
    LET n == n12 + n21
    IN  Rat(2 * CdfNum(Min(n12, n21), n), Pow2(n))

\* mcnemar(contingency_table): the mid-p value.
mcnemar(n12, n21) ==
    LET n == n12 + n21
    IN  Rat(2 * CdfNum(Min(n12, n21), n) - Choose(n, n12), Pow2(n))

\* crosstab(score_c, score_t, levels=([False, True], [False, True])).count[a, b]
crosstab(paired, a, b) ==
    Cardinality({i \in 1..Len(paired) :
                    paired[i].score_c = a /\ paired[i].score_t = b})

(***************************************************************************)
(* The two library tests, scipy.stats.ttest_rel and scipy.stats.wilcoxon,  *)
(* computed in whole numbers.  A real of the computation is a count of     *)
(* 2^-FBits, below 8; a product is taken on the two halves of each factor, *)
(* so that no intermediate leaves 32 bits.  The p-value that results is    *)
(* carried to five decimals, the last of them within one unit of the       *)
(* library's value; a positive one is never rounded to zero.               *)
(***************************************************************************)
FBits == 28
FUnit == Pow2(FBits)
FSplit == Pow2(FBits \div 2)

\* The product a * b of two counts as a pair: its whole units of 2^-FBits
\* and what is left over, in units of 2^-(2 FBits).
FParts(a, b) ==
    LET ah == a \div FSplit
        al == a % FSplit
        bh == b \div FSplit
        bl == b % FSplit
        mid == ah * bl + al * bh
        low == (mid % FSplit) * FSplit + al * bl
    IN  <<ah * bh + mid \div FSplit + low \div FUnit, low % FUnit>>
\* a * b, rounded down.
FMul(a, b) == FParts(a, b)[1]

\* The first k binary places of r / b, for 0 <= r < b.
RECURSIVE DivBits(_, _, _)
DivBits(r, b, k) ==
    IF k = 0 THEN 0
    ELSE IF 2 * r >= b THEN Pow2(k - 1) + DivBits(2 * r - b, b, k - 1)
    ELSE DivBits(2 * r, b, k - 1)

\* a / b, for a >= 0 and b > 0 in one unit (two integers, or two reals).
FDiv(a, b) == (a \div b) * FUnit + DivBits(a % b, b, FBits)

\* r * r <= v, exactly: the square is compared with its left-over part.
SquareAtMost(r, v) ==
    LET sq == FParts(r, r)
    IN  sq[1] < v \/ (sq[1] = v /\ sq[2] = 0)
\* The largest root whose square is at most v, found bit by bit (v < 4).
RECURSIVE SqrtBits(_, _, _)
SqrtBits(v, acc, k) ==
    IF k < 0 THEN acc
    ELSE IF SquareAtMost(acc + Pow2(k), v)
    THEN SqrtBits(v, acc + Pow2(k), k - 1)
    ELSE SqrtBits(v, acc, k - 1)
FSqrt(v) == SqrtBits(v, 0, FBits)
\* sqrt(num / den) for integers num >= 0 and den > 0: the ratio is brought
\* into [1/4, 1) by factors of 4 first, so that a small or a large ratio
\* keeps its leading bits.
RECURSIVE SqrtRat(_, _)
SqrtRat(num, den) ==
    IF num = 0 THEN 0
    ELSE IF 4 * num < den THEN SqrtRat(4 * num, den) \div 2
    ELSE IF num >= den THEN 2 * SqrtRat(num, 4 * den)
    ELSE FSqrt(FDiv(num, den))

\* arctan(u) for a small u: u - u^3/3 + u^5/5 - u^7/7 + u^9/9.
AtanSeries(u) ==
    LET u2 == FMul(u, u)
        t9 == FUnit \div 9
        t7 == FUnit \div 7 - FMul(u2, t9)
        t5 == FUnit \div 5 - FMul(u2, t7)
        t3 == FUnit \div 3 - FMul(u2, t5)
    IN  FMul(u, FUnit - FMul(u2, t3))
\* tan(x / 2) from u = tan(x).
HalfTan(u) == FDiv(u, FUnit + FSqrt(FUnit + FMul(u, u)))
\* arctan(u) for 0 <= u <= 1.
FAtan(u) == 4 * AtanSeries(HalfTan(HalfTan(u)))
HalfPi == 2 * FAtan(FUnit)
\* The angle of sine s and cosine c in the first quadrant.
Angle(s, c) ==
    IF s <= c THEN FAtan(FDiv(s, c)) ELSE HalfPi - FAtan(FDiv(c, s))

\* 1 + k/(k+1) c2 (1 + (k+2)/(k+3) c2 (1 + ...)), the factors below nu - 1.
RECURSIVE CosSeries(_, _, _)
CosSeries(c2, k, nu) ==
    IF k >= nu - 1 THEN FUnit
    ELSE LET x == FMul(c2, CosSeries(c2, k + 2, nu))
         IN  FUnit + x - x \div (k + 1)

\* P(|T| >= |t|) for Student's t with nu degrees of freedom, where
\* t^2 / (nu + t^2) = s2n / s2d is the squared sine of theta = arctan(|t| /
\* sqrt(nu)): 1 - A(t | nu), A being the finite sum in sin and cos theta
\* (with theta itself for odd nu) that the distribution function reduces to.
StudentTail(s2n, s2d, nu) ==
    LET c2 == FDiv(s2d - s2n, s2d)
        s == SqrtRat(s2n, s2d)
        c == SqrtRat(s2d - s2n, s2d)
        A == IF nu = 1 THEN FDiv(Angle(s, c), HalfPi)
             ELSE IF nu % 2 = 1
             THEN FDiv(Angle(s, c) + FMul(s, FMul(c, CosSeries(c2, 2, nu))),
                       HalfPi)
             ELSE FMul(s, CosSeries(c2, 1, nu))
    IN  Max(0, FUnit - A)

\* The coefficients, in units of 2^-FBits, of the polynomial P in z with
\* P(z)^-16 = 2 * (1 - Phi(z)) to within 3e-7 for the standard normal Phi.
NormalCoef == <<13386164, 5674996, 879831, 10202, 13124, 1445>>
RECURSIVE NormalPoly(_, _)
NormalPoly(z, k) ==
    IF k > Len(NormalCoef) THEN 0
    ELSE FMul(z, NormalCoef[k] + NormalPoly(z, k + 1))
\* 2 * norm.sf(z) for z >= 0; from z = 5 on it is below 6e-7.
NormalTail(z) ==
    LET r == FDiv(FUnit, FUnit + NormalPoly(z, 1))
        r2 == FMul(r, r)
        r4 == FMul(r2, r2)
        r8 == FMul(r4, r4)
    IN  IF z >= 5 * FUnit THEN 0 ELSE FMul(r8, r8)

\* A positive probability p as a float: p * 10^5 / 2^28, rounded, as
\* (((p / 2^4) * 5^3 / 2^9) * 5^2 + 2^9) / 2^10.
Probability(p) ==
    LET k == Max(1, (((((p \div 16) * 125) \div 512) * 25) + 512) \div 1024)
        scale == 100000
    IN  IF k >= scale THEN One ELSE Rat(k, scale)

(***************************************************************************)
(* IEEE doubles, for the one place where the code compares a computed      *)
(* float with 0.  A double is [neg, mag]: its magnitude in units of 2^-84, *)
(* a natural number held in seven limbs of 14 bits, the least first (the   *)
(* seventh limb counts the whole numbers).  Every double between 2^-31 and *)
(* 2^13 is such a number, and so is every sum or difference of two.        *)
(***************************************************************************)
Limb == Pow2(14)
BigZero == <<0, 0, 0, 0, 0, 0, 0>>
RECURSIVE BigAdd(_, _, _, _)
BigAdd(a, b, i, carry) ==
    IF i > Len(a) THEN <<>>
    ELSE IF i = Len(a) THEN <<a[i] + b[i] + carry>>
    ELSE LET s == a[i] + b[i] + carry
         IN  <<s % Limb>> \o BigAdd(a, b, i + 1, s \div Limb)
\* a - b, for a >= b.
RECURSIVE BigSub(_, _, _, _)
BigSub(a, b, i, borrow) ==
    IF i > Len(a) THEN <<>>
    ELSE IF i = Len(a) THEN <<a[i] - b[i] - borrow>>
    ELSE LET s == a[i] - b[i] - borrow
         IN  <<s % Limb>> \o BigSub(a, b, i + 1, IF s < 0 THEN 1 ELSE 0)
\* a < b on the limbs i down to 1.
RECURSIVE BigLess(_, _, _)
BigLess(a, b, i) ==
    IF i = 0 THEN FALSE
    ELSE IF a[i] # b[i] THEN a[i] < b[i]
    ELSE BigLess(a, b, i - 1)
\* <<a \div n, a % n>> on the limbs i up to the last, for a small n.
RECURSIVE BigDiv(_, _, _)
BigDiv(a, n, i) ==
    IF i > Len(a) THEN <<<<>>, 0>>
    ELSE LET up == BigDiv(a, n, i + 1)
             cur == up[2] * Limb + a[i]
         IN  <<<<cur \div n>> \o up[1], cur % n>>
RECURSIVE BitsOf(_)
BitsOf(n) == IF n = 0 THEN 0 ELSE 1 + BitsOf(n \div 2)
RECURSIVE BitLen(_, _)
BitLen(a, i) ==
    IF i = 0 THEN 0
    ELSE IF a[i] # 0 THEN 14 * (i - 1) + BitsOf(a[i])
    ELSE BitLen(a, i - 1)
\* Bit k of a (bit 0 is the least), and the number that has this bit alone.
Bit(a, k) == (a[k \div 14 + 1] \div Pow2(k % 14)) % 2
BigBit(k) == [i \in 1..Len(BigZero) |-> IF i = k \div 14 + 1 THEN Pow2(k % 14) ELSE 0]

\* Rounding to the nearest double, ties to the even one: a is the magnitude
\* cut to a whole number of units and frac says what was cut off (0 nothing,
\* 1 less than half a unit, 2 half a unit, 3 more).  A double has 53
\* significant bits; the r bits below them are dropped.
RoundDouble(a, frac) ==
    LET r == BitLen(a, Len(a)) - 53
    IN  IF r <= 0
        THEN IF frac = 3 \/ (frac = 2 /\ Bit(a, 0) = 1)
             THEN BigAdd(a, BigBit(0), 1, 0)
             ELSE a
        ELSE LET w == r \div 14
                 kept == [i \in 1..Len(a) |->
                            IF i <= w THEN 0
                            ELSE IF i = w + 1
                            THEN (a[i] \div Pow2(r % 14)) * Pow2(r % 14)
                            ELSE a[i]]
                 below == frac # 0 \/ \E k \in 0..(r - 2) : Bit(a, k) = 1
             IN  IF Bit(a, r - 1) = 1 /\ (below \/ Bit(a, r) = 1)
                 THEN BigAdd(kept, BigBit(r), 1, 0)
                 ELSE kept
\* The double nearest to a / n.
BigQuot(a, n) ==
    LET qr == BigDiv(a, n, 1)
        frac == IF qr[2] = 0 THEN 0
                ELSE IF 2 * qr[2] < n THEN 1
                ELSE IF 2 * qr[2] = n THEN 2
                ELSE 3
    IN  RoundDouble(qr[1], frac)
\* Zero carries no sign: -0.0 == 0.0.
Signed(neg, mag) == [neg |-> neg /\ mag # BigZero, mag |-> mag]
\* The double a cell of k tenths holds: the float nearest to k / 10.
Double(k) ==
    Signed(k < 0, BigQuot([i \in 1..Len(BigZero) |->
                              IF i = Len(BigZero) THEN Abs(k) ELSE 0], Scale))
\* The doubles of the cells from 0.0 to 1.0, worked out once.
Doubles == [k \in 0..Scale |-> Double(k)]
Float(k) == IF k \in DOMAIN Doubles THEN Doubles[k] ELSE Double(k)
\* x - y, x + y and x / n on doubles.
FloatSub(x, y) ==
    IF x.neg # y.neg
    THEN Signed(x.neg, RoundDouble(BigAdd(x.mag, y.mag, 1, 0), 0))
    ELSE IF BigLess(x.mag, y.mag, Len(x.mag))
    THEN Signed(~x.neg, RoundDouble(BigSub(y.mag, x.mag, 1, 0), 0))
    ELSE Signed(x.neg, RoundDouble(BigSub(x.mag, y.mag, 1, 0), 0))
FloatAdd(x, y) == FloatSub(x, [neg |-> ~y.neg, mag |-> y.mag])
FloatDiv(x, n) == Signed(x.neg, BigQuot(x.mag, n))

\* numpy's sum of d[lo..hi] (pairwise_sum): fewer than 8 entries are added
\* one after the other starting from 0.0; up to 128 go to eight running sums
\* that are added in pairs, the entries left over after the last block of
\* eight one after the other; more are cut in two.
RECURSIVE AddEach(_, _, _, _, _)
AddEach(d, i, hi, step, acc) ==
    IF i > hi THEN acc ELSE AddEach(d, i + step, hi, step, FloatAdd(acc, d[i]))
RECURSIVE pairwise_sum(_, _, _)
pairwise_sum(d, lo, hi) ==
    LET n == hi - lo + 1
        last == hi - (n % 8)
        r == [j \in 0..7 |-> AddEach(d, lo + j + 8, last, 8, d[lo + j])]
        half == (n \div 2) - ((n \div 2) % 8)
    IN  IF n < 8 THEN AddEach(d, lo, hi, 1, Signed(FALSE, BigZero))
        ELSE IF n <= 128
        THEN AddEach(d, last + 1, hi, 1,
                     FloatAdd(FloatAdd(FloatAdd(r[0], r[1]), FloatAdd(r[2], r[3])),
                              FloatAdd(FloatAdd(r[4], r[5]), FloatAdd(r[6], r[7]))))
        ELSE FloatAdd(pairwise_sum(d, lo, lo + half - 1),
                      pairwise_sum(d, lo + half, hi))

\* The test on the decimal numbers the cells stand for instead of the floats.
std_is_zero_exact(a, b) ==
    LET d == [i \in 1..Len(a) |-> a[i] - b[i]]
    IN  Len(d) >= 2 /\ Len(d) * SumSeq(Squares(d)) - SumSeq(d) * SumSeq(d) = 0

\* (a - b).std() == 0 on two columns of cells, as pandas computes it
\* (nanvar, ddof = 1): avg is the sum of the differences over their number
\* and the deviation is 0 exactly when avg - d is 0.0 for every difference
\* d; with fewer than 2 differences it is NaN.  The differences are floats:
\* 0.3 - 0.2 is not 0.2 - 0.1, and the avg of three times 0.1 is not 0.1.
std_is_zero(a, b) ==
    LET n == Len(a)
        d == [i \in 1..n |-> FloatSub(Float(a[i]), Float(b[i]))]
        avg == FloatDiv(pairwise_sum(d, 1, n), n)
    IN  /\ n >= 2
        /\ \A i \in 1..n : FloatSub(avg, d[i]).mag = BigZero

\* ttest_rel(a, b).pvalue: two-sided, on the differences a - b, n - 1
\* degrees of freedom.  With t = mean / sqrt(var / n) and S, Q the sum and
\* the sum of squares of the differences, t^2 / (nu + t^2) = S^2 / (n Q).
\* Fewer than two pairs give NaN; differences that are all zero give NaN;
\* differences that are one float have variance 0.0 and an infinite t
\* (p = 0); differences that are one decimal number but not one float, or
\* whose float mean is not that float, have a t of the order of 1e16, whose
\* p is positive and below every value kept here.
ttest_rel(a, b) ==
    LET d == [i \in 1..Len(a) |-> a[i] - b[i]]
        n == Len(d)
        S == SumSeq(d)
        Q == SumSeq(Squares(d))
    IN  IF n < 2 THEN NaN
        ELSE IF n * Q - S * S = 0
        THEN IF S = 0 THEN NaN
             ELSE IF std_is_zero(a, b) THEN Zero
             ELSE Probability(0)
        ELSE IF S = 0 THEN One
        ELSE Probability(StudentTail(S * S, n * Q, n - 1))

\* Twice rankdata(abs(d))[i]: ties share the average of their ranks.
rank2(d, i) ==
    2 * Cardinality({j \in 1..Len(d) : Abs(d[j]) < Abs(d[i])})
    + Cardinality({j \in 1..Len(d) : Abs(d[j]) = Abs(d[i])}) + 1
\* Twice the sum of the ranks of the differences of one sign (1 or -1).
rank_sum2(d, sign) ==
    SumSeq([i \in 1..Len(d) |-> IF d[i] * sign > 0 THEN rank2(d, i) ELSE 0])

\* The number of subsets of 1..n whose sum is at most s: 2^n times the
\* distribution function of the signed-rank statistic.
RECURSIVE Below(_, _)
Below(n, s) ==
    IF s < 0 THEN 0
    ELSE IF 2 * s >= n * (n + 1) THEN Pow2(n)
    ELSE Below(n - 1, s) + Below(n - 1, s - n)

\* The exact two-sided p-value: twice the smaller of P(W >= lo) and
\* P(W <= hi), at most 1.
wilcoxon_exact(n, lo, hi) ==
    LET m == 2 * Min(Pow2(n) - Below(n, lo - 1), Below(n, hi))
    IN  IF m >= Pow2(n) THEN One ELSE Rat(m, Pow2(n))

\* The normal approximation with Pratt's treatment of zeros and the
\* correction for ties, no continuity correction: z = (T - mn) / se with
\* 4 (T - mn) = num and 48 se^2 = V below, so that z^2 = 3 num^2 / V.
wilcoxon_approx(d) ==
    LET n == Len(d)
        n_zero == Cardinality({i \in 1..n : d[i] = 0})
        T2 == Min(rank_sum2(d, 1), rank_sum2(d, -1))
        num == 2 * T2 - n * (n + 1) + n_zero * (n_zero + 1)
        tied(i) == Cardinality({j \in 1..n : Abs(d[j]) = Abs(d[i])})
        ties == SumSeq([i \in 1..n |->
                    IF d[i] = 0 THEN 0 ELSE tied(i) * tied(i) - 1])
        V == 2 * n * (n + 1) * (2 * n + 1)
             - 2 * n_zero * (n_zero + 1) * (2 * n_zero + 1) - ties
    IN  IF V = 0 THEN NaN
        ELSE IF num = 0 THEN One
        ELSE Probability(NormalTail(SqrtRat(3 * num * num, V)))

\* wilcoxon(d, zero_method="pratt").pvalue, two-sided, method "auto": the
\* set of values the installed library can return.  A sample with a zero
\* (or of more than 50) takes the normal approximation; one without zeros
\* or ties the exact distribution.  On tied ranks without zeros the releases
\* differ: the exact distribution at the rank sum cut to an integer, the
\* exact distribution at the rank sum rounded outwards, or the normal
\* approximation.  All differences zero, which _stat_test never passes, is
\* an error or NaN.
wilcoxon(d) ==
    LET n == Len(d)
        r2 == rank_sum2(d, 1)
        has_zero == \E i \in 1..n : d[i] = 0
        has_ties == \E i, j \in 1..n : i # j /\ Abs(d[i]) = Abs(d[j])
    IN  IF all_zero(d) THEN {NaN}
        ELSE IF has_zero \/ n > 50 THEN {wilcoxon_approx(d)}
        ELSE IF ~has_ties THEN {wilcoxon_exact(n, r2 \div 2, r2 \div 2)}
        ELSE {wilcoxon_exact(n, r2 \div 2, r2 \div 2),
              wilcoxon_exact(n, r2 \div 2, (r2 + 1) \div 2),
              wilcoxon_approx(d)}

\* _stat_test without its all-differences-zero shortcuts.
stat_test_no_shortcut(data_type, paired) ==
    IF data_type = Ordinal
    THEN wilcoxon([i \in 1..Len(paired) |-> round(diff(paired)[i])])
    ELSE IF data_type = Continuous
    THEN LET d == diff(paired)
         IN  IF std_is_zero(score_t(paired), score_c(paired)) THEN {Zero}
             ELSE IF Len(d) < 2 THEN {NaN}
             ELSE {ttest_rel(score_c(paired), score_t(paired))}
    ELSE {mcnemar(crosstab(paired, FalseCell, TrueCell),
                  crosstab(paired, TrueCell, FalseCell))}

\* _stat_test: the set of p-values the test can return on df_paired.
stat_test(data_type, paired) ==
    IF data_type = Ordinal
    THEN LET d == [i \in 1..Len(paired) |-> round(diff(paired)[i])]
         IN  IF all_zero(d) THEN {One} ELSE wilcoxon(d)
    ELSE IF data_type = Continuous
    THEN LET d == diff(paired)
         IN  IF all_zero(d) THEN {One}
             ELSE IF std_is_zero(score_t(paired), score_c(paired)) THEN {Zero}
             ELSE IF Len(d) < 2 THEN {NaN}
             ELSE {ttest_rel(score_c(paired), score_t(paired))}
    ELSE {mcnemar(crosstab(paired, FalseCell, TrueCell),
                  crosstab(paired, TrueCell, FalseCell))}

\* The constructor's checks with the join compared to the smaller input.
comparison_error_min(control, treatment, score) ==
    LET df_c == control.df_result
        df_t == treatment.df_result
        df_paired == merge(df_c.rows, df_t.rows)
    IN  IF col_score(score) \notin df_c.cols \/ col_score(score) \notin df_t.cols
        THEN "ValueError: score column is required in both results"
        ELSE IF Len(df_paired) < Min(shape0(df_c), shape0(df_t))
        THEN "ValueError: Variants have unmatched evaluation results"
        ELSE IF isnull_any(Column(df_c)) \/ isnull_any(Column(df_t))
        THEN "ValueError: Variants have NaN evaluation results"
        ELSE "ok"

\* The constructor's checks without the check for unmatched rows.
comparison_error_inner_join(control, treatment, score) ==
    LET df_c == control.df_result
        df_t == treatment.df_result
    IN  IF col_score(score) \notin df_c.cols \/ col_score(score) \notin df_t.cols
        THEN "ValueError: score column is required in both results"
        ELSE IF isnull_any(Column(df_c)) \/ isnull_any(Column(df_t))
        THEN "ValueError: Variants have NaN evaluation results"
        ELSE "ok"

\* The constructor's checks with the missing-value check on the control only.
comparison_error_control_only(control, treatment, score) ==
    LET df_c == control.df_result
        df_t == treatment.df_result
        df_paired == merge(df_c.rows, df_t.rows)
    IN  IF col_score(score) \notin df_c.cols \/ col_score(score) \notin df_t.cols
        THEN "ValueError: score column is required in both results"
        ELSE IF Len(df_paired) < Max(shape0(df_c), shape0(df_t))
        THEN "ValueError: Variants have unmatched evaluation results"
        ELSE IF isnull_any(Column(df_c))
        THEN "ValueError: Variants have NaN evaluation results"
        ELSE "ok"

\* df_result[[TEST_ID, col_score]].rename(columns={col_score: "score"}) done on
\* the result's own table: the column of the result is renamed with it.
select_renamed_inplace(df, score) ==
    LET renamed == [cols |-> (df.cols \ {col_score(score)}) \cup {"score"},
                    rows |-> df.rows]
    IN  [view |-> renamed, kept |-> renamed]

\* df_result[[TEST_ID, col_score]].rename(columns={col_score: "score"}): the
\* selection is a new table and rename returns another; view is the table
\* the comparison goes on with (df_c, df_t), kept is the table the result
\* holds after the statement.
select_renamed(df, score) ==
    [view |-> [cols |-> {TEST_ID, "score"}, rows |-> df.rows], kept |-> df]

\* How EvaluationScoreComparison(control, treatment, score) ends: "ok" or the
\* error raised, by the checks of __init__ or by _stat_test at its end.
comparison_error(control, treatment, score) ==
    LET df_c == control.df_result
        df_t == treatment.df_result
        df_paired == merge(df_c.rows, df_t.rows)
    IN  IF col_score(score) \notin df_c.cols \/ col_score(score) \notin df_t.cols
        THEN "ValueError: score column is required in both results"
        ELSE IF Len(df_paired) < Max(shape0(df_c), shape0(df_t))
        THEN "ValueError: Variants have unmatched evaluation results"
        ELSE IF isnull_any(Column(df_c)) \/ isnull_any(Column(df_t))
        THEN "ValueError: Variants have NaN evaluation results"
        ELSE IF score.data_type \notin EvaluationScoreDataType
        THEN "ValueError: Unsupported data type"
        ELSE "ok"

NoComparison ==
    [score |-> NoScore, control_variant |-> NONE, treatment_variant |-> NONE,
     count |-> 0, control_mean |-> None, treatment_mean |-> None,
     delta_estimate |-> None, p_value |-> None]

\* The attributes __init__ sets, for the p-value p the test returned.
EvaluationScoreComparison(control, treatment, score, p) ==
    LET df_paired == merge(control.df_result.rows, treatment.df_result.rows)
        cm == mean(score_c(df_paired))
        tm == mean(score_t(df_paired))
    IN  [score |-> score,
         control_variant |-> control.variant,
         treatment_variant |-> treatment.variant,
         count |-> Len(df_paired),
         control_mean |-> cm,
         treatment_mean |-> tm,
         delta_estimate |-> Sub(tm, cm),
         p_value |-> p]

\* 0.05, the significance threshold of treatment_effect.
Alpha == Rat(1, 20)

\* treatment_effect with the significance checks ahead of the size checks.
treatment_effect_p_first(x) ==
    IF isnan(x.p_value) THEN "Inconclusive"
    ELSE IF Gt(x.p_value, Alpha) THEN "Inconclusive"
    ELSE IF x.count = 0 THEN "Zero samples"
    ELSE IF x.count < SAMPLE_SIZE_THRESHOLD THEN "Too few samples"
    ELSE IF x.score.desired_direction = Neutral THEN "Changed"
    ELSE IF x.score.desired_direction = Increase
            /\ Gt(x.treatment_mean, x.control_mean) THEN "Improved"
    ELSE IF x.score.desired_direction = Decrease
            /\ Lt(x.treatment_mean, x.control_mean) THEN "Improved"
    ELSE "Degraded"

\* treatment_effect reading every desired direction but Neutral as Increase.
treatment_effect_no_decrease(x) ==
    IF x.count = 0 THEN "Zero samples"
    ELSE IF x.count < SAMPLE_SIZE_THRESHOLD THEN "Too few samples"
    ELSE IF isnan(x.p_value) THEN "Inconclusive"
    ELSE IF Gt(x.p_value, Alpha) THEN "Inconclusive"
    ELSE IF x.score.desired_direction = Neutral THEN "Changed"
    ELSE IF Gt(x.treatment_mean, x.control_mean) THEN "Improved"
    ELSE "Degraded"

\* treatment_effect with p_value >= 0.05 as its test of insignificance.
treatment_effect_strict(x) ==
    IF x.count = 0 THEN "Zero samples"
    ELSE IF x.count < SAMPLE_SIZE_THRESHOLD THEN "Too few samples"
    ELSE IF isnan(x.p_value) THEN "Inconclusive"
    ELSE IF Ge(x.p_value, Alpha) THEN "Inconclusive"
    ELSE IF x.score.desired_direction = Neutral THEN "Changed"
    ELSE IF x.score.desired_direction = Increase
            /\ Gt(x.treatment_mean, x.control_mean) THEN "Improved"
    ELSE IF x.score.desired_direction = Decrease
            /\ Lt(x.treatment_mean, x.control_mean) THEN "Improved"
    ELSE "Degraded"

\* treatment_effect with the size checks left out for boolean scores.
treatment_effect_by_type(x) ==
    IF x.count = 0 /\ x.score.data_type # Boolean THEN "Zero samples"
    ELSE IF x.count < SAMPLE_SIZE_THRESHOLD /\ x.score.data_type # Boolean
    THEN "Too few samples"
    ELSE IF isnan(x.p_value) THEN "Inconclusive"
    ELSE IF Gt(x.p_value, Alpha) THEN "Inconclusive"
    ELSE IF x.score.desired_direction = Neutral THEN "Changed"
    ELSE IF x.score.desired_direction = Increase
            /\ Gt(x.treatment_mean, x.control_mean) THEN "Improved"
    ELSE IF x.score.desired_direction = Decrease
            /\ Lt(x.treatment_mean, x.control_mean) THEN "Improved"
    ELSE "Degraded"

\* treatment_effect counting an unchanged mean as a move the desired way.
treatment_effect_ties_improved(x) ==
    IF x.count = 0 THEN "Zero samples"
    ELSE IF x.count < SAMPLE_SIZE_THRESHOLD THEN "Too few samples"
    ELSE IF isnan(x.p_value) THEN "Inconclusive"
    ELSE IF Gt(x.p_value, Alpha) THEN "Inconclusive"
    ELSE IF x.score.desired_direction = Neutral THEN "Changed"
    ELSE IF x.score.desired_direction = Increase
            /\ Ge(x.treatment_mean, x.control_mean) THEN "Improved"
    ELSE IF x.score.desired_direction = Decrease
            /\ Le(x.treatment_mean, x.control_mean) THEN "Improved"
    ELSE "Degraded"

\* The treatment_effect property.
treatment_effect(x) ==
    IF x.count = 0 THEN "Zero samples"
    ELSE IF x.count < SAMPLE_SIZE_THRESHOLD THEN "Too few samples"
    ELSE IF isnan(x.p_value) THEN "Inconclusive"
    ELSE IF Gt(x.p_value, Alpha) THEN "Inconclusive"
    ELSE IF x.score.desired_direction = Neutral THEN "Changed"
    ELSE IF x.score.desired_direction = Increase
            /\ Gt(x.treatment_mean, x.control_mean) THEN "Improved"
    ELSE IF x.score.desired_direction = Decrease
            /\ Lt(x.treatment_mean, x.control_mean) THEN "Improved"
    ELSE "Degraded"

(***************************************************************************)
(* State.                                                                  *)
(*   arg      the arguments of the last EvaluationResult(...) call         *)
(*   made     the EvaluationResult that call built, or NoResult            *)
(*   results  the EvaluationResult objects in use, by role                 *)
(*   call     the last engine operation and its arguments                  *)
(*   ci       the EvaluationScoreCI the last operation built, or NoCI      *)
(*   cmp      the EvaluationScoreComparison in hand, or NoComparison       *)
(*   effect   the value the last read of cmp.treatment_effect returned     *)
(*   err      how the last operation ended: "ok" or the error raised       *)
(* and one variable for each part of the program outside the engine, Off   *)
(* in every specification that does not run that part:                     *)
(*   retry    a call of simulate_question_answer (action.py)               *)
(*   valid    a call of validate_input_data (action.py)                    *)
(*   conv     a call of convert_pass_fail_to_boolean (action.py)           *)
(*   view     a call of should_include_score (summary.py)                  *)
(*   pv       a call of fmt_pvalue (render.py)                             *)
(*   tab      a call of fmt_table_ci or fmt_table_compare (render.py)      *)
(*   rep      a call of summarize (summary.py)                             *)
(*   fmt      a call of fmt_treatment_badge or fmt_ci (render.py)          *)
(***************************************************************************)
VARIABLES arg, made, results, call, ci, cmp, effect, err,
          retry, valid, conv, view, pv, tab, rep, fmt

engine == <<arg, made, results, call, ci, cmp, effect, err>>
layers == <<retry, valid, conv, view, pv, tab, rep, fmt>>
vars == <<arg, made, results, call, ci, cmp, effect, err,
          retry, valid, conv, view, pv, tab, rep, fmt>>

Off == [pc |-> "off"]
LayersOff ==
    /\ retry = Off
    /\ valid = Off
    /\ conv = Off
    /\ view = Off
    /\ pv = Off
    /\ tab = Off
    /\ rep = Off
    /\ fmt = Off

NoArg == [variant |-> NONE, df_result |-> [cols |-> {}, rows |-> <<>>]]
NoResult == [variant |-> NONE, df_result |-> [cols |-> {}, rows |-> <<>>],
             ai_foundry_url |-> NONE]
Roles == {"control", "treatment"}
NoCall == [op |-> "none", a |-> "", b |-> "", score |-> NoScore]

(***************************************************************************)
(* SpecConstruct: the constructor of EvaluationResult applied to every     *)
(* argument pair of the bounded input space.                               *)
(***************************************************************************)
InitConstruct ==
    /\ arg \in {[variant |-> v, df_result |-> df] : v \in VariantArgs, df \in Tables}
    /\ made = NoResult
    /\ err = "pending"
    /\ results = [r \in Roles |-> NoResult]
    /\ call = NoCall
    /\ ci = NoCI
    /\ cmp = NoComparison
    /\ effect = "unread"
    /\ LayersOff

NewResult ==
    /\ err = "pending"
    /\ err' = post_init(arg.variant, arg.df_result)
    /\ made' = IF err' = "ok"
               THEN EvaluationResult(arg.variant, arg.df_result)
               ELSE NoResult
    /\ UNCHANGED <<arg, results, call, ci, cmp, effect>>
    /\ UNCHANGED layers

NextConstruct == NewResult

SpecConstruct == InitConstruct /\ [][NextConstruct]_vars

(***************************************************************************)
(* Spec: the engine over every pair of EvaluationResult objects the        *)
(* constructor accepts.                                                    *)
(***************************************************************************)
WellFormed(variant) ==
    {EvaluationResult(variant, df) :
        df \in {t \in Tables : post_init(variant, t) = "ok"}}
\* The rows are in ascending order of identity.
Ascending(df) ==
    \A i, j \in 1..Len(df.rows) : i < j => df.rows[i].id < df.rows[j].id

\* The control's rows are listed in ascending identity (any table is this up
\* to the order of its rows); the treatment's rows are in any order.
Init ==
    /\ arg = NoArg
    /\ made = NoResult
    /\ results \in [control : {r \in WellFormed("base") : Ascending(r.df_result)},
                    treatment : WellFormed("new")]
    /\ call = NoCall
    /\ ci = NoCI
    /\ cmp = NoComparison
    /\ effect = "unread"
    /\ err = "ok"
    /\ LayersOff

\* No derived object is in hand: the previous one has been discarded.
Idle == call = NoCall

\* EvaluationScoreCI(results[a], score)
ComputeCI(a, score) ==
    /\ Idle
    /\ call' = [op |-> "ci", a |-> a, b |-> "", score |-> score]
    /\ err' = ci_error(results[a], score)
    /\ ci' = IF err' = "ok" THEN EvaluationScoreCI(results[a], score) ELSE NoCI
    /\ UNCHANGED <<arg, made, results, cmp, effect>>
    /\ UNCHANGED layers

\* EvaluationScoreComparison(results.control, results[b], score): the control
\* against itself or against the treatment, as fmt_table_compare calls it.
\* Past the column check the constructor selects and renames the columns of
\* both tables; the results hold what that leaves them.
Compare(b, score) ==
    /\ Idle
    /\ call' = [op |-> "compare", a |-> "control", b |-> b, score |-> score]
    /\ err' = comparison_error(results.control, results[b], score)
    /\ IF err' = "ok"
       THEN \E p \in stat_test(score.data_type,
                               merge(results.control.df_result.rows,
                                     results[b].df_result.rows)) :
               cmp' = EvaluationScoreComparison(results.control, results[b], score, p)
       ELSE cmp' = NoComparison
    /\ results' =
          IF col_score(score) \in results.control.df_result.cols
             /\ col_score(score) \in results[b].df_result.cols
          THEN [r \in Roles |->
                   IF r \in {"control", b}
                   THEN [results[r] EXCEPT
                           !.df_result = select_renamed(@, score).kept]
                   ELSE results[r]]
          ELSE results
    /\ UNCHANGED <<arg, made, ci, effect>>
    /\ UNCHANGED layers

\* A read of cmp.treatment_effect.
ReadEffect ==
    /\ cmp # NoComparison
    /\ effect' = treatment_effect(cmp)
    /\ UNCHANGED <<arg, made, results, call, ci, cmp, err>>
    /\ UNCHANGED layers

\* The derived object goes out of scope (the next row of the report starts).
Discard ==
    /\ ~Idle
    /\ call' = NoCall
    /\ ci' = NoCI
    /\ cmp' = NoComparison
    /\ effect' = "unread"
    /\ err' = "ok"
    /\ UNCHANGED <<arg, made, results>>
    /\ UNCHANGED layers

Next ==
    \/ \E a \in Roles, score \in EvaluationScore : ComputeCI(a, score)
    \/ \E b \in Roles, score \in EvaluationScore : Compare(b, score)
    \/ ReadEffect
    \/ Discard

Spec == Init /\ [][Next]_vars

(***************************************************************************)
(* SpecEffect: treatment_effect read on Comparison objects whose           *)
(* attributes are drawn from bounded sets around the two thresholds.       *)
(***************************************************************************)
EffectCounts ==
    {0, 1, SAMPLE_SIZE_THRESHOLD - 1, SAMPLE_SIZE_THRESHOLD, SAMPLE_SIZE_THRESHOLD + 1}
EffectPValues == {NaN, Zero, Rat(1, 1000), Alpha, Rat(51, 1000), One}
EffectMeans ==
    {<<Zero, One>>, <<Rat(1, 2), One>>, <<One, Zero>>, <<One, Rat(1, 2)>>,
     <<Rat(1, 2), Rat(1, 2)>>}
FreeComparisons ==
    {[score |-> sc, control_variant |-> "base", treatment_variant |-> "new",
      count |-> n, control_mean |-> m[1], treatment_mean |-> m[2],
      delta_estimate |-> Sub(m[2], m[1]), p_value |-> p] :
        sc \in EvaluationScore, n \in EffectCounts, m \in EffectMeans,
        p \in EffectPValues}

InitEffect ==
    /\ arg = NoArg
    /\ made = NoResult
    /\ results = [r \in Roles |-> NoResult]
    /\ call = NoCall
    /\ ci = NoCI
    /\ cmp \in FreeComparisons
    /\ effect = "unread"
    /\ err = "ok"
    /\ LayersOff

NextEffect == ReadEffect

SpecEffect == InitEffect /\ [][NextEffect]_vars

(***************************************************************************)
(* The engine and every part but one at rest: the Init of each             *)
(* specification below sets its own part and these.                        *)
(***************************************************************************)
EngineOff ==
    /\ arg = NoArg
    /\ made = NoResult
    /\ results = [r \in Roles |-> NoResult]
    /\ call = NoCall
    /\ ci = NoCI
    /\ cmp = NoComparison
    /\ effect = "unread"
    /\ err = "ok"

(***************************************************************************)
(* SpecRetry: simulate_question_answer (action.py).  Every call of         *)
(* create_and_process_run returns one of Runs, every jitter is one of      *)
(* Jitters; retry holds the position in the function (pc), the loop        *)
(* variable attempt, the runs returned so far, the durations passed to     *)
(* time.sleep so far and the exception raised.                             *)
(***************************************************************************)
JitterSteps == 2

max_retries == 5
base_wait_seconds == 2
COMPLETED == "completed"
RATE_LIMIT == "rate_limit_exceeded"

\* What create_and_process_run can return: the status of the run and the code
\* of its last_error, NONE when the run carries no error record.
Runs ==
    {[status |-> COMPLETED, last_error |-> NONE],
     [status |-> "failed", last_error |-> RATE_LIMIT],
     [status |-> "failed", last_error |-> "server_error"],
     [status |-> "failed", last_error |-> NONE],
     [status |-> "expired", last_error |-> NONE]}

\* random.uniform(0, 0.5) on a grid of JitterSteps steps.
Jitters == {Rat(j, 2 * JitterSteps) : j \in 0..JitterSteps}

\* The back-off growing by base_wait_seconds with each attempt.
wait_seconds_linear(attempt, jitter) ==
    Add(Rat((attempt + 1) * base_wait_seconds, 1), jitter)

\* (2**attempt) * base_wait_seconds + jitter
wait_seconds(attempt, jitter) ==
    Add(Rat(Pow2(attempt) * base_wait_seconds, 1), jitter)

\* The retry test without its bound on the attempt.
may_retry_unbounded(run, attempt) ==
    run.last_error = RATE_LIMIT

\* The retry test with the last attempt let through as well.
may_retry_off_by_one(run, attempt) ==
    run.last_error = RATE_LIMIT /\ attempt < max_retries

\* run.last_error.code == "rate_limit_exceeded" and attempt < max_retries - 1,
\* read when run.last_error is an error record.
may_retry(run, attempt) ==
    run.last_error = RATE_LIMIT /\ attempt < max_retries - 1

InitRetry ==
    /\ EngineOff
    /\ retry = [pc |-> "run", attempt |-> 0, runs |-> <<>>, sleeps |-> <<>>,
                raised |-> NONE, message |-> NONE]
    /\ valid = Off
    /\ conv = Off
    /\ view = Off
    /\ pv = Off
    /\ tab = Off
    /\ rep = Off
    /\ fmt = Off

\* One pass of the loop body, from the call of create_and_process_run to the
\* break, the call of time.sleep or the raise.
RunAttempt(run, jitter) ==
    /\ retry.pc = "run"
    /\ retry' =
         LET seen == [retry EXCEPT !.runs = Append(@, run)] IN
         IF run.status = COMPLETED
         THEN [seen EXCEPT !.pc = "after"]
         ELSE IF run.last_error = NONE
         THEN [seen EXCEPT !.pc = "raised", !.raised = "AttributeError",
                           !.message = "'NoneType' object has no attribute 'code'"]
         ELSE IF may_retry(run, retry.attempt)
         THEN [seen EXCEPT !.pc = "sleep",
                           !.sleeps = Append(@, wait_seconds(retry.attempt, jitter))]
         ELSE [seen EXCEPT !.pc = "raised", !.raised = "ValueError",
                           !.message = run.last_error]
    /\ UNCHANGED engine
    /\ UNCHANGED <<valid, conv, view, pv, tab, rep, fmt>>

\* time.sleep returns and the loop goes on to its next attempt, if it has one.
WakeUp ==
    /\ retry.pc = "sleep"
    /\ retry' = [retry EXCEPT !.attempt = @ + 1,
                              !.pc = IF retry.attempt + 1 < max_retries
                                     THEN "run" ELSE "after"]
    /\ UNCHANGED engine
    /\ UNCHANGED <<valid, conv, view, pv, tab, rep, fmt>>

\* After the loop: the check of the last run, then the metrics and the return.
AfterLoop ==
    /\ retry.pc = "after"
    /\ retry' =
         IF retry.runs[Len(retry.runs)].status # COMPLETED
         THEN [retry EXCEPT !.pc = "raised", !.raised = "ValueError",
                            !.message = "Failed to complete run after 5 attempts"]
         ELSE [retry EXCEPT !.pc = "returned"]
    /\ UNCHANGED engine
    /\ UNCHANGED <<valid, conv, view, pv, tab, rep, fmt>>

NextRetry ==
    \/ \E run \in Runs, jitter \in Jitters : RunAttempt(run, jitter)
    \/ WakeUp
    \/ AfterLoop

SpecRetry == InitRetry /\ [][NextRetry]_vars

\* The function runs on: each library call returns and the next statement runs.
SpecRetryFair == SpecRetry /\ WF_vars(NextRetry)

(***************************************************************************)
(* SpecView: should_include_score (summary.py) on every evaluator class,   *)
(* score and view of the bounded input space.                              *)
(***************************************************************************)
DEFAULT == "default"
ALL == "all-scores"
RAW_SCORES == "raw-scores-only"
EvaluationResultView == {DEFAULT, ALL, RAW_SCORES}

OPERATIONAL == "OperationalMetricsEvaluator"
EvaluatorClasses == {OPERATIONAL, "FluencyEvaluator", "ViolenceEvaluator", "F1ScoreEvaluator"}

\* The score entries of the evaluator metadata: type and desired_direction.
ScoreEntries ==
    [type : EvaluationScoreDataType, desired_direction : DesiredDirection]

\* should_include_score with the two filtered views exchanged.
should_include_score_swapped(score, evaluator, result_view) ==
    IF evaluator.class = OPERATIONAL THEN TRUE
    ELSE IF result_view = ALL THEN TRUE
    ELSE IF score.type = Boolean THEN result_view = RAW_SCORES
    ELSE result_view = DEFAULT

should_include_score(score, evaluator, result_view) ==
    IF evaluator.class = OPERATIONAL THEN TRUE
    ELSE IF result_view = ALL THEN TRUE
    ELSE IF score.type = Boolean THEN result_view = DEFAULT
    ELSE result_view = RAW_SCORES

InitView ==
    /\ EngineOff
    /\ view \in [pc : {"call"}, score : ScoreEntries,
                 evaluator : [class : EvaluatorClasses],
                 result_view : EvaluationResultView, included : {FALSE}]
    /\ retry = Off
    /\ valid = Off
    /\ conv = Off
    /\ pv = Off
    /\ tab = Off
    /\ rep = Off
    /\ fmt = Off

ShouldInclude ==
    /\ view.pc = "call"
    /\ view' = [view EXCEPT
                  !.pc = "done",
                  !.included = should_include_score(view.score, view.evaluator,
                                                    view.result_view)]
    /\ UNCHANGED engine
    /\ UNCHANGED <<retry, valid, conv, pv, tab, rep, fmt>>

NextView == ShouldInclude

SpecView == InitView /\ [][NextView]_vars

(***************************************************************************)
(* SpecConvert: convert_pass_fail_to_boolean (action.py).  A key is the    *)
(* sequence of its dot-separated parts; a cell is [t, v]: t is the Python  *)
(* type of the value ("str" or "bool") and v its text.                     *)
(***************************************************************************)
MaxEvalRows == 2

Str(s) == [t |-> "str", v |-> s]
Bool(b) == [t |-> "bool", v |-> IF b THEN "True" ELSE "False"]

\* str.lower() on the strings of the model.
lower(s) ==
    CASE s \in {"pass", "PASS", "Pass"} -> "pass"
      [] s \in {"fail", "FAIL", "Fail"} -> "fail"
      [] s = "Increase" -> "increase"
      [] s = "Decrease" -> "decrease"
      [] s = "Neutral" -> "neutral"
      [] OTHER -> s

RECURSIVE Concat(_)
Concat(ss) == IF ss = <<>> THEN <<>> ELSE Head(ss) \o Concat(Tail(ss))

\* The (field, score) pairs in the order the three nested loops visit them,
\* field = f"outputs.{evaluator['key']}.{score['key']}".
MetadataFields(eval_metadata) ==
    LET EvaluatorFields(evaluator) ==
            [i \in 1..Len(evaluator.scores) |->
                [field |-> <<"outputs", evaluator.key, evaluator.scores[i].key>>,
                 score |-> evaluator.scores[i]]]
        SectionFields(section) ==
            Concat([i \in 1..Len(section.evaluators) |->
                        EvaluatorFields(section.evaluators[i])])
    IN  Concat([i \in 1..Len(eval_metadata.sections) |->
                    SectionFields(eval_metadata.sections[i])])

\* available_scores.get(key, None): the last score stored under the key.
NoMatch == [key |-> NONE, desired_direction |-> NONE]
available_scores(eval_metadata, key) ==
    LET fields == MetadataFields(eval_metadata)
        at == {i \in 1..Len(fields) : fields[i].field = key}
    IN  IF at = {} THEN NoMatch
        ELSE fields[CHOOSE i \in at : \A j \in at : j <= i].score

\* The conversion with "pass" read as True whatever the direction.
convert_cell_pass_true(value, matching_score) ==
    IF value.t = "str"
    THEN IF lower(value.v) = "pass" THEN Bool(TRUE)
         ELSE IF lower(value.v) = "fail" THEN Bool(FALSE)
         ELSE value
    ELSE value

\* The body of `if matching_score:`: the new value of row[key].
convert_cell(value, matching_score) ==
    LET is_up_good == lower(matching_score.desired_direction) = "increase" IN
    IF value.t = "str"
    THEN IF lower(value.v) = "pass" THEN Bool(is_up_good)
         ELSE IF lower(value.v) = "fail" THEN Bool(~is_up_good)
         ELSE value
    ELSE value

\* One row with the words under every outputs key converted, the keys the
\* metadata does not list read as scores to increase.
convert_row_unlisted(row, eval_metadata) ==
    [key \in DOMAIN row |->
        IF Len(key) >= 2 /\ key[1] = "outputs"
        THEN IF available_scores(eval_metadata, key) # NoMatch
             THEN convert_cell(row[key], available_scores(eval_metadata, key))
             ELSE convert_cell(row[key], [key |-> NONE, desired_direction |-> Increase])
        ELSE row[key]]

\* One row after the loop over its keys.
convert_row(row, eval_metadata) ==
    [key \in DOMAIN row |->
        IF Len(key) >= 2 /\ key[1] = "outputs"
           /\ available_scores(eval_metadata, key) # NoMatch
        THEN convert_cell(row[key], available_scores(eval_metadata, key))
        ELSE row[key]]

convert_pass_fail_to_boolean(eval_rows, eval_metadata) ==
    [i \in 1..Len(eval_rows) |-> convert_row(eval_rows[i], eval_metadata)]

\* The inputs of the model: two listed scores (one of them in each direction
\* that is not Increase), one outputs key the metadata does not list, and the
\* identity column.
KEY_ID == <<"inputs", "id">>
KEY_UP == <<"outputs", "fluency", "result">>
KEY_DOWN == <<"outputs", "safety", "result">>
KEY_FREE == <<"outputs", "custom", "result">>
ConvMetadata ==
    {[sections |->
        <<[evaluators |->
             <<[key |-> "fluency",
                scores |-> <<[key |-> "result", desired_direction |-> Increase]>>],
               [key |-> "safety",
                scores |-> <<[key |-> "result", desired_direction |-> d]>>]>>]>>] :
        d \in {Decrease, Neutral}}
ConvCells ==
    {Str("pass"), Str("PASS"), Str("fail"), Str("Fail"), Str("n/a"), Bool(TRUE)}
ConvRows ==
    {[k \in {KEY_ID, KEY_UP, KEY_DOWN, KEY_FREE} |->
        CASE k = KEY_ID -> Str("pass")
          [] k = KEY_UP -> up
          [] k = KEY_DOWN -> down
          [] k = KEY_FREE -> free] :
        up \in ConvCells, down \in ConvCells, free \in {Str("pass"), Bool(FALSE)}}
ConvInputs ==
    UNION {[1..n -> ConvRows] : n \in 1..MaxEvalRows}

InitConvert ==
    /\ EngineOff
    /\ conv \in [pc : {"call"}, eval_metadata : ConvMetadata, given : ConvInputs,
                 rows : {<<>>}, calls : {0}]
    /\ retry = Off
    /\ valid = Off
    /\ view = Off
    /\ pv = Off
    /\ tab = Off
    /\ rep = Off
    /\ fmt = Off

\* A call on the rows as they are: the rows given at first, then the rows an
\* earlier call has left (the function writes into the rows it is given).
Convert ==
    /\ conv.calls < 2
    /\ conv' = [conv EXCEPT
                  !.pc = "done",
                  !.calls = @ + 1,
                  !.rows = convert_pass_fail_to_boolean(
                              IF conv.calls = 0 THEN conv.given ELSE conv.rows,
                              conv.eval_metadata)]
    /\ UNCHANGED engine
    /\ UNCHANGED <<retry, valid, view, pv, tab, rep, fmt>>

NextConvert == Convert

SpecConvert == InitConvert /\ [][NextConvert]_vars

(***************************************************************************)
(* SpecValidate: validate_input_data (action.py).  A JSON value is a       *)
(* record tagged with its Python type t, a list with its elements l; a     *)
(* dict lists its keys, and the field of a key it has not holds a filler   *)
(* no operator reads.  The input is whatever json.loads returned: a dict,  *)
(* a list or a number.  An identity is an int or a list (which cannot be   *)
(* hashed); an evaluator name is a str or a number.                        *)
(***************************************************************************)
MaxItems == 2
MaxEvaluators == 2

ABSENT == [t |-> "absent", l |-> <<>>]
\* A value that is no list: a str or an int.
JScalar(t) == [t |-> t, l |-> <<>>]
JList(l) == [t |-> "list", l |-> l]
\* item["id"]: the int n, or the list [n].
JId(t, n) == [t |-> t, v |-> n]
\* An element of data["evaluators"]: the str s, or the number s is the
\* numeral of.
JName(t, s) == [t |-> t, v |-> s]
\* A dict of data["data"]: its keys among "query" and "id", and item["id"].
JItem(keys, id) == [t |-> "dict", keys |-> keys, id |-> id]
\* An element of data["data"] that is a str.
NotADict == [t |-> "str", keys |-> {}, id |-> JId("int", 1)]

\* eval_metadata: the classes the metadata lists, by section.
ValidMetadata ==
    [sections |->
        <<[evaluators |-> <<[class |-> "FluencyEvaluator"]>>],
          [evaluators |-> <<[class |-> "ViolenceEvaluator"],
                            [class |-> "F1ScoreEvaluator"]>>]>>]

\* available_evaluators, in the order the two loops append the classes.
available_evaluators(eval_metadata) ==
    Concat([i \in 1..Len(eval_metadata.sections) |->
              [j \in 1..Len(eval_metadata.sections[i].evaluators) |->
                  eval_metadata.sections[i].evaluators[j].class]])

\* The loop over data["data"] from item i on, ids being the identities seen:
\* "ok" or the error it raises.  `item["id"] in ids` hashes the identity
\* before it looks into the set, so a list raises TypeError there, whatever
\* the set holds.
RECURSIVE check_items(_, _, _)
check_items(items, i, ids) ==
    IF i > Len(items) THEN "ok"
    ELSE IF items[i].t # "dict"
    THEN "ValueError: Item in 'data' must be a dictionary"
    ELSE IF "query" \notin items[i].keys
    THEN "ValueError: Item in 'data' is missing required field 'query'"
    ELSE IF "id" \in items[i].keys
    THEN IF items[i].id.t = "list"
         THEN "TypeError: unhashable type: 'list'"
         ELSE IF items[i].id \in ids
         THEN "ValueError: Duplicate ID found in 'data'"
         ELSE check_items(items, i + 1, ids \cup {items[i].id})
    ELSE check_items(items, i + 1, ids)

\* How validate_input_data(data, eval_metadata) ends: "ok" (it returns None)
\* or the error it raises.  `field not in data` raises TypeError on a number
\* and finds no field in a list.  An element of data["evaluators"] that is
\* no str equals no class name, so it is unknown, and str.join raises
\* TypeError on it while the message of the ValueError is being built.
validation_error(data, eval_metadata) ==
    IF data.t = "int"
    THEN "TypeError: argument of type 'int' is not iterable"
    ELSE IF \E f \in {"name", "evaluators", "data"} : data[f] = ABSENT
    THEN "ValueError: Input data is missing required fields"
    ELSE IF data.name.t # "str"
    THEN "ValueError: Input data 'name' must be a string"
    ELSE IF data.evaluators.t # "list"
    THEN "ValueError: Input data 'evaluators' must be a list"
    ELSE IF data.data.t # "list"
    THEN "ValueError: Input data 'data' must be a list"
    ELSE IF data.data.l = <<>>
    THEN "ValueError: Input data 'data' list cannot be empty"
    ELSE IF check_items(data.data.l, 1, {}) # "ok"
    THEN check_items(data.data.l, 1, {})
    ELSE LET available == available_evaluators(eval_metadata)
             unknown_evaluators ==
                 {i \in 1..Len(data.evaluators.l) :
                     /\ \A j \in 1..Len(available) :
                           data.evaluators.l[i] # JName("str", available[j])
                     /\ data.evaluators.l[i] # JName("str", OPERATIONAL)}
         IN  IF unknown_evaluators = {}
             THEN "ok"
             ELSE IF \E i \in unknown_evaluators : data.evaluators.l[i].t # "str"
             THEN "TypeError: sequence item: expected str instance"
             ELSE "ValueError: Unknown evaluators specified"

\* The inputs of the model.
ValidItems ==
    {NotADict, JItem({}, JId("int", 1)), JItem({"query"}, JId("int", 1)),
     JItem({"id"}, JId("int", 1)), JItem({"query", "id"}, JId("list", 1))}
        \cup {JItem({"query", "id"}, JId("int", n)) : n \in Ids}
ValidNames ==
    {JName("str", s) :
        s \in {"FluencyEvaluator", "F1ScoreEvaluator", OPERATIONAL, "NoSuchEvaluator"}}
        \cup {JName("int", "5")}
ValidInputs ==
    [t : {"dict"},
     name : {ABSENT, JScalar("str"), JScalar("int")},
     evaluators : {ABSENT, JScalar("str")}
        \cup {JList(l) : l \in UNION {[1..n -> ValidNames] : n \in 0..MaxEvaluators}},
     data : {ABSENT, JScalar("str")}
        \cup {JList(l) : l \in UNION {[1..n -> ValidItems] : n \in 0..MaxItems}}]
        \cup [t : {"list", "int"}, name : {ABSENT}, evaluators : {ABSENT},
              data : {ABSENT}]

InitValidate ==
    /\ EngineOff
    /\ valid \in [pc : {"call"}, data : ValidInputs, raised : {NONE}]
    /\ retry = Off
    /\ conv = Off
    /\ view = Off
    /\ pv = Off
    /\ tab = Off
    /\ rep = Off
    /\ fmt = Off

\* The function reads data and assigns to none of its parts.
Validate ==
    /\ valid.pc = "call"
    /\ valid' = [valid EXCEPT
                   !.pc = "done",
                   !.raised = validation_error(valid.data, ValidMetadata)]
    /\ UNCHANGED engine
    /\ UNCHANGED <<retry, conv, view, pv, tab, rep, fmt>>

NextValidate == Validate

SpecValidate == InitValidate /\ [][NextValidate]_vars

(***************************************************************************)
(* SpecPaired: the engine on two results over the same MaxPairs or fewer   *)
(* identities whose score columns are boolean: n00 pairs (control False,   *)
(* treatment False), then n01 (False, True), n10 (True, False) and n11     *)
(* (True, True) pairs, for every choice of the four counts.                *)
(***************************************************************************)
MaxPairs == 10

PairCounts ==
    {c \in [1..4 -> 0..MaxPairs] : c[1] + c[2] + c[3] + c[4] \in 1..MaxPairs}

\* The boolean cell of role r in row i.
PairCell(c, r, i) ==
    IF i <= c[1] THEN FalseCell
    ELSE IF i <= c[1] + c[2]
    THEN (IF r = "control" THEN FalseCell ELSE TrueCell)
    ELSE IF i <= c[1] + c[2] + c[3]
    THEN (IF r = "control" THEN TrueCell ELSE FalseCell)
    ELSE TrueCell

PairedResults(c) ==
    [r \in Roles |->
        EvaluationResult(
            IF r = "control" THEN "base" ELSE "new",
            [cols |-> AllCols,
             rows |-> [i \in 1..(c[1] + c[2] + c[3] + c[4]) |->
                          [id |-> i, score |-> PairCell(c, r, i)]]])]

InitPaired ==
    /\ arg = NoArg
    /\ made = NoResult
    /\ results \in {PairedResults(c) : c \in PairCounts}
    /\ call = NoCall
    /\ ci = NoCI
    /\ cmp = NoComparison
    /\ effect = "unread"
    /\ err = "ok"
    /\ LayersOff

SpecPaired == InitPaired /\ [][Next]_vars

(***************************************************************************)
(* SpecDecimal: the engine on two results over the same MaxDecimalRows or  *)
(* fewer identities whose score cells are 0.1, 0.2 and 0.3, numbers that   *)
(* no double holds exactly.                                                *)
(***************************************************************************)
MaxDecimalRows == 3

DecimalVals == {1, 2, 3}

DecimalResults(control, treatment) ==
    [r \in Roles |->
        EvaluationResult(
            IF r = "control" THEN "base" ELSE "new",
            [cols |-> AllCols,
             rows |-> [i \in 1..Len(control) |->
                          [id |-> i,
                           score |-> IF r = "control" THEN control[i]
                                     ELSE treatment[i]]]])]

InitDecimal ==
    /\ arg = NoArg
    /\ made = NoResult
    /\ results \in UNION {{DecimalResults(c, t) :
                              c \in [1..n -> DecimalVals],
                              t \in [1..n -> DecimalVals]} :
                          n \in 1..MaxDecimalRows}
    /\ call = NoCall
    /\ ci = NoCI
    /\ cmp = NoComparison
    /\ effect = "unread"
    /\ err = "ok"
    /\ LayersOff

SpecDecimal == InitDecimal /\ [][Next]_vars

(***************************************************************************)
(* SpecPValue: fmt_pvalue (render.py).  A p-value is a decimal             *)
(* [kind, mant, exp]: kind "num" is the number mant * 10^-exp, kind "nan"  *)
(* is NaN.  A str is the sequence of its characters.  The inputs leave out *)
(* the decimals that lie exactly half way between two outputs, where the   *)
(* digit format() prints depends on the binary expansion of the float.     *)
(***************************************************************************)
MaxMantissa == 110
MaxDecimals == 12

Dec(k, m) == [kind |-> "num", mant |-> k, exp |-> m]
DecNaN == [kind |-> "nan", mant |-> 0, exp |-> 0]

\* The character U+2248 (ALMOST EQUAL TO).
ALMOST_EQUAL == "<U+2248>"

RECURSIVE Pow10(_)
Pow10(n) == IF n = 0 THEN 1 ELSE 10 * Pow10(n - 1)
Digit(d) == <<"0", "1", "2", "3", "4", "5", "6", "7", "8", "9">>[d + 1]
RECURSIVE DigitsOf(_)
DigitsOf(n) == IF n < 10 THEN <<Digit(n)>> ELSE DigitsOf(n \div 10) \o <<Digit(n % 10)>>

\* x < 0.001, for a positive number x.
LtThousandth(x) ==
    IF x.exp > 9 THEN TRUE ELSE x.mant * 1000 < Pow10(x.exp)

\* format(x, ".0e") for x > 0: one digit, "e", the sign and at least two
\* digits of the exponent.
format_e(x) ==
    LET nd == Len(DigitsOf(x.mant))
        unit == Pow10(nd - 1)
        up == IF 2 * (x.mant % unit) > unit THEN 1 ELSE 0
        carry == (x.mant \div unit) + up = 10
        d == IF carry THEN 1 ELSE (x.mant \div unit) + up
        e == nd - 1 - x.exp + (IF carry THEN 1 ELSE 0)
    IN  <<Digit(d), "e", IF e < 0 THEN "-" ELSE "+">>
            \o (IF Abs(e) < 10 THEN <<"0">> ELSE <<>>) \o DigitsOf(Abs(e))

\* format(x, ".3f") for 0.001 <= x: the integer part, ".", three decimals.
format_f(x) ==
    LET q == IF x.exp <= 3 THEN x.mant * Pow10(3 - x.exp)
             ELSE LET unit == Pow10(x.exp - 3)
                  IN  (x.mant \div unit)
                         + (IF 2 * (x.mant % unit) > unit THEN 1 ELSE 0)
    IN  DigitsOf(q \div 1000)
            \o <<".", Digit((q \div 100) % 10), Digit((q \div 10) % 10), Digit(q % 10)>>

\* s.replace(old, new): every occurrence of old, from the left.
RECURSIVE replace(_, _, _)
replace(s, old, new) ==
    IF Len(s) < Len(old) THEN s
    ELSE IF SubSeq(s, 1, Len(old)) = old
    THEN new \o replace(SubSeq(s, Len(old) + 1, Len(s)), old, new)
    ELSE <<Head(s)>> \o replace(Tail(s), old, new)

\* fmt_pvalue returning what format() returns.
fmt_pvalue_raw(x) ==
    IF x.kind = "nan" THEN <<"n", "a", "n">>
    ELSE IF x.mant <= 0 THEN <<ALMOST_EQUAL, "0">>
    ELSE IF LtThousandth(x) THEN format_e(x) ELSE format_f(x)

fmt_pvalue(x) ==
    IF x.kind = "nan" THEN <<"n", "a", "n">>
    ELSE IF x.mant <= 0 THEN <<ALMOST_EQUAL, "0">>
    ELSE replace(IF LtThousandth(x) THEN format_e(x) ELSE format_f(x),
                 <<"e", "-", "0">>, <<"e", "-">>)

\* The decimals a format's rounding has to break a tie for.
HalfWay(x) ==
    /\ x.mant > 0
    /\ IF LtThousandth(x)
       THEN LET unit == Pow10(Len(DigitsOf(x.mant)) - 1)
            IN  2 * (x.mant % unit) = unit
       ELSE x.exp > 3 /\ 2 * (x.mant % Pow10(x.exp - 3)) = Pow10(x.exp - 3)

\* The p-values of the model: the decimals of [0, 1] that are not half way.
PValues ==
    {x \in {Dec(k, m) : k \in 0..MaxMantissa, m \in 0..MaxDecimals} :
        /\ x.exp <= 9 => x.mant <= Pow10(x.exp)
        /\ ~HalfWay(x)}
        \cup {DecNaN}

InitPValue ==
    /\ EngineOff
    /\ pv \in [pc : {"call"}, x : PValues, text : {<<>>}]
    /\ retry = Off
    /\ valid = Off
    /\ conv = Off
    /\ view = Off
    /\ tab = Off
    /\ rep = Off
    /\ fmt = Off

FmtPValue ==
    /\ pv.pc = "call"
    /\ pv' = [pv EXCEPT !.pc = "done", !.text = fmt_pvalue(pv.x)]
    /\ UNCHANGED engine
    /\ UNCHANGED <<retry, valid, conv, view, tab, rep, fmt>>

NextPValue == FmtPValue

SpecPValue == InitPValue /\ [][NextPValue]_vars

(***************************************************************************)
(* SpecTable: fmt_table_ci and fmt_table_compare (render.py) on a list of  *)
(* scores and two results, the control being the baseline.  A row of the   *)
(* table is the name of its score and the labels of its columns in the     *)
(* order the row dict received them; the text of the cells is left out.    *)
(***************************************************************************)
MaxScores == 2

\* The scores of a table: one of each data type, and one whose data_type is
\* None, which EvaluationScore accepts and no branch on the type knows.
TableScores ==
    {[name |-> IF t = NONE THEN "Untyped" ELSE t,
      evaluator |-> "fluency", field |-> "score",
      data_type |-> t, desired_direction |-> Increase] :
        t \in EvaluationScoreDataType \cup {NONE}}
ScoreLists == UNION {[1..n -> TableScores] : n \in 0..MaxScores}

\* The errors `except ValueError` catches.
ValueErrors ==
    {"ValueError: score column is required in result",
     "ValueError: n must be at least 1",
     "ValueError: score column is required in both results",
     "ValueError: Variants have unmatched evaluation results",
     "ValueError: Variants have NaN evaluation results",
     "ValueError: Unsupported data type"}

\* A dict of results: its keys in their order and the result at each key.
Dict(keys, at) == [keys |-> keys, at |-> at]
\* The keys the loop over results.items() does not skip.
Variants(rs, baseline) == SelectSeq(rs.keys, LAMBDA v : v # baseline)

\* The try block with the row appended once the baseline's own cell is made.
compare_row_error_baseline_only(rs, baseline, score) ==
    comparison_error(rs.at[baseline], rs.at[baseline], score)

\* The try block of fmt_table_compare for one score: the baseline against
\* itself, then against every other variant in turn; "ok" or the error raised.
compare_row_error(rs, baseline, score) ==
    LET self == comparison_error(rs.at[baseline], rs.at[baseline], score)
        others == Variants(rs, baseline)
        failed == {k \in 1..Len(others) :
                      comparison_error(rs.at[baseline], rs.at[others[k]], score) # "ok"}
    IN  IF self # "ok" THEN self
        ELSE IF failed # {}
        THEN comparison_error(
                rs.at[baseline],
                rs.at[others[CHOOSE k \in failed : \A j \in failed : k <= j]],
                score)
        ELSE "ok"

\* The loop over the scores from position i on, errs[i] being how the try
\* block of score i ends and rows[i] the row it appends: the records, or the
\* error that `except ValueError` does not catch and that leaves the function.
RECURSIVE build_rows(_, _, _, _)
build_rows(errs, rows, i, records) ==
    IF i > Len(errs) THEN [records |-> records, raised |-> NONE]
    ELSE IF errs[i] = "ok"
    THEN build_rows(errs, rows, i + 1, Append(records, rows[i]))
    ELSE IF errs[i] \in ValueErrors
    THEN build_rows(errs, rows, i + 1, records)
    ELSE [records |-> <<>>, raised |-> errs[i]]

fmt_table_ci(scores, result) ==
    IF scores = <<>>
    THEN [records |-> <<>>, raised |-> "ValueError: No evaluator scores provided"]
    ELSE build_rows(
            [i \in 1..Len(scores) |-> ci_error(result, scores[i])],
            [i \in 1..Len(scores) |->
                [score |-> scores[i].name,
                 columns |-> <<"Evaluation score", result.variant, "95% CI">>]],
            1, <<>>)

fmt_table_compare(scores, rs, baseline) ==
    IF rs.keys = <<>>
    THEN [records |-> <<>>, raised |-> "ValueError: No evaluation results provided"]
    ELSE IF scores = <<>>
    THEN [records |-> <<>>, raised |-> "ValueError: No evaluator scores provided"]
    ELSE build_rows(
            [i \in 1..Len(scores) |-> compare_row_error(rs, baseline, scores[i])],
            [i \in 1..Len(scores) |->
                [score |-> scores[i].name,
                 columns |-> <<"Evaluation score", rs.at[baseline].variant>>
                    \o [k \in 1..Len(Variants(rs, baseline)) |->
                            rs.at[Variants(rs, baseline)[k]].variant]]],
            1, <<>>)

\* The results of the model: rows 1, 2, ... in this order.
Numbered(df) == \A i \in 1..Len(df.rows) : df.rows[i].id = i

InitTable ==
    /\ arg = NoArg
    /\ made = NoResult
    /\ results \in [control : {r \in WellFormed("base") : Numbered(r.df_result)},
                    treatment : {r \in WellFormed("new") : Numbered(r.df_result)}]
    /\ call = NoCall
    /\ ci = NoCI
    /\ cmp = NoComparison
    /\ effect = "unread"
    /\ err = "ok"
    /\ tab \in [pc : {"call"}, fn : {"none"}, scores : ScoreLists,
                records : {<<>>}, raised : {NONE}]
    /\ retry = Off
    /\ valid = Off
    /\ conv = Off
    /\ view = Off
    /\ pv = Off
    /\ rep = Off
    /\ fmt = Off

FmtTableCI ==
    /\ tab.pc = "call"
    /\ LET out == fmt_table_ci(tab.scores, results.control)
       IN  tab' = [tab EXCEPT !.pc = "done", !.fn = "ci",
                              !.records = out.records, !.raised = out.raised]
    /\ UNCHANGED engine
    /\ UNCHANGED <<retry, valid, conv, view, pv, rep, fmt>>

FmtTableCompare ==
    /\ tab.pc = "call"
    /\ LET out == fmt_table_compare(tab.scores,
                                     Dict(<<"control", "treatment">>, results),
                                     "control")
       IN  tab' = [tab EXCEPT !.pc = "done", !.fn = "compare",
                              !.records = out.records, !.raised = out.raised]
    /\ UNCHANGED engine
    /\ UNCHANGED <<retry, valid, conv, view, pv, rep, fmt>>

NextTable == FmtTableCI \/ FmtTableCompare

SpecTable == InitTable /\ [][NextTable]_vars

(***************************************************************************)
(* SpecSummary: summarize (summary.py) on up to MaxAgents agents.  The     *)
(* agents dict and the eval_results dict have the agent ids as keys, in    *)
(* the same order, as main builds them; the variant of a result is the     *)
(* name of its agent and the names are distinct.  The report is the list   *)
(* of agent rows and the list of sections, each with the rows of its       *)
(* table.                                                                  *)
(***************************************************************************)
MaxAgents == 3

AgentNames == <<"agent_1", "agent_2", "agent_3", "agent_4", "agent_5">>

\* evaluator-scores.yaml as loaded: sections, evaluators and scores in order.
SummaryMetadata ==
    [sections |->
        <<[name |-> "Quality",
           evaluators |->
              <<[class |-> "FluencyEvaluator", key |-> "fluency",
                 scores |-> <<[name |-> "Fluency", key |-> "score",
                               type |-> Ordinal, desired_direction |-> Increase],
                              [name |-> "Fluency pass", key |-> "score",
                               type |-> Boolean, desired_direction |-> Increase]>>],
                [class |-> "F1ScoreEvaluator", key |-> "fluency",
                 scores |-> <<[name |-> "F1", key |-> "score",
                               type |-> Continuous, desired_direction |-> Increase]>>]>>],
          [name |-> "Safety",
           evaluators |->
              <<[class |-> "ViolenceEvaluator", key |-> "fluency",
                 scores |-> <<[name |-> "Violence", key |-> "score",
                               type |-> Ordinal, desired_direction |-> Decrease],
                              [name |-> "Violence defect", key |-> "score",
                               type |-> Boolean, desired_direction |-> Decrease]>>]>>],
          [name |-> "Operational metrics",
           evaluators |->
              <<[class |-> OPERATIONAL, key |-> "fluency",
                 scores |-> <<[name |-> "Completion tokens", key |-> "score",
                               type |-> Continuous,
                               desired_direction |-> Neutral]>>]>>]>>]

\* eval_scores of append_eval_section: the scores of the section's evaluators
\* that are asked for and that the view includes, as EvaluationScore objects.
eval_scores(section, evaluators, result_view) ==
    Concat([i \in 1..Len(section.evaluators) |->
        LET evaluator == section.evaluators[i]
            made_of(score) ==
                [name |-> score.name, evaluator |-> evaluator.key,
                 field |-> score.key, data_type |-> score.type,
                 desired_direction |-> score.desired_direction]
            kept == SelectSeq(evaluator.scores,
                        LAMBDA score :
                            should_include_score(score, evaluator, result_view))
        IN  IF evaluator.class \notin evaluators THEN <<>>
            ELSE [k \in 1..Len(kept) |-> made_of(kept[k])]])

\* append_eval_section: what it appends to md (nothing, or the section with
\* the rows of its table), or the error the table builder lets out.
append_eval_section(eval_results, baseline, evaluators, result_view, section) ==
    LET scores == eval_scores(section, evaluators, result_view)
        table == IF Len(eval_results.keys) >= 2
                 THEN fmt_table_compare(scores, eval_results, baseline)
                 ELSE fmt_table_ci(scores, eval_results.at[baseline])
    IN  IF scores = <<>> THEN [md |-> <<>>, raised |-> NONE]
        ELSE IF table.raised # NONE THEN [md |-> <<>>, raised |-> table.raised]
        ELSE [md |-> <<[section |-> section.name, rows |-> table.records]>>,
              raised |-> NONE]

\* The agent rows in the order of the agents dict.
agent_rows_dict_order(agents, baseline) == agents

\* The rows of the agent-variants table: the baseline, then every agent of
\* agents.values() whose id is not the baseline's.
agent_rows(agents, baseline) ==
    <<baseline>> \o SelectSeq(agents, LAMBDA id : id # baseline)

\* The sections of the report from section i on.
RECURSIVE sections_from(_, _, _, _, _, _)
sections_from(metadata, i, eval_results, baseline, evaluators, result_view) ==
    IF i > Len(metadata.sections) THEN [md |-> <<>>, raised |-> NONE]
    ELSE LET section == metadata.sections[i]
             wanted == \E k \in 1..Len(section.evaluators) :
                          section.evaluators[k].class \in evaluators
             here == IF wanted
                     THEN append_eval_section(eval_results, baseline, evaluators,
                                              result_view, section)
                     ELSE [md |-> <<>>, raised |-> NONE]
             rest == sections_from(metadata, i + 1, eval_results, baseline,
                                   evaluators, result_view)
         IN  IF here.raised # NONE THEN here
             ELSE IF rest.raised # NONE THEN rest
             ELSE [md |-> here.md \o rest.md, raised |-> NONE]

summarize(eval_results, agents, baseline, evaluators, result_view) ==
    LET body == sections_from(SummaryMetadata, 1, eval_results, baseline,
                              evaluators, result_view)
    IN  [agent_rows |-> IF body.raised = NONE THEN agent_rows(agents, baseline)
                        ELSE <<>>,
         sections |-> body.md,
         raised |-> body.raised]

\* The inputs of the model.  The agents are listed in ascending id and any of
\* them is the baseline; a result is a table of True cells, a table with one
\* missing cell or a table without the score column.
AgentLists ==
    {a \in UNION {[1..n -> 1..MaxAgents] : n \in 1..MaxAgents} :
        \A i, j \in 1..Len(a) : i < j => a[i] < a[j]}
SummaryTables ==
    {df \in Tables :
        /\ Numbered(df)
        /\ Len(df.rows) >= 1
        /\ TEST_ID \in df.cols
        /\ \/ COL_SCORE \in df.cols
              /\ \A i \in 1..Len(df.rows) : df.rows[i].score = TrueCell
           \/ Len(df.rows) = 1 /\ COL_SCORE \in df.cols
           \/ Len(df.rows) = 1 /\ COL_SCORE \notin df.cols}
EvaluatorLists ==
    {{"FluencyEvaluator"},
     {"ViolenceEvaluator", "F1ScoreEvaluator"},
     {"FluencyEvaluator", "F1ScoreEvaluator", "ViolenceEvaluator", OPERATIONAL}}
SummaryInputs ==
    UNION {[agents : {a}, baseline : {a[i] : i \in 1..Len(a)},
            tables : [{a[i] : i \in 1..Len(a)} -> SummaryTables],
            evaluators : EvaluatorLists,
            result_view : EvaluationResultView] : a \in AgentLists}

InitSummary ==
    /\ EngineOff
    /\ rep \in [pc : {"call"}, given : SummaryInputs,
                out : {[agent_rows |-> <<>>, sections |-> <<>>, raised |-> NONE]}]
    /\ retry = Off
    /\ valid = Off
    /\ conv = Off
    /\ view = Off
    /\ pv = Off
    /\ tab = Off
    /\ fmt = Off

Summarize ==
    /\ rep.pc = "call"
    /\ LET g == rep.given
           eval_results ==
               Dict(g.agents,
                    [id \in DOMAIN g.tables |->
                        EvaluationResult(AgentNames[id], g.tables[id])])
       IN  rep' = [rep EXCEPT
                     !.pc = "done",
                     !.out = summarize(eval_results, g.agents, g.baseline,
                                       g.evaluators, g.result_view)]
    /\ UNCHANGED engine
    /\ UNCHANGED <<retry, valid, conv, view, pv, tab, fmt>>

NextSummary == Summarize

SpecSummary == InitSummary /\ [][NextSummary]_vars

(***************************************************************************)
(* SpecCells: the cell formatters fmt_treatment_badge and fmt_ci           *)
(* (render.py) on the Comparison and the confidence interval the engine    *)
(* has built from the paired results of SpecPaired, which reach the sample *)
(* size threshold.  The text of a number is left out: a formatted number   *)
(* is the format specification chosen for it together with the number, and *)
(* a badge is the arguments fmt_treatment_badge passes to fmt_badge.       *)
(***************************************************************************)
SS_THRESHOLD == Rat(1, 20)
HSS_THRESHOLD == Rat(1, 1000)

\* format(x, spec) with the specification chosen for the data type.
fmt_metric_value(x, data_type, sign) ==
    LET spec == IF data_type = Ordinal THEN ".2f"
                ELSE IF data_type = Continuous THEN ".3g"
                ELSE IF data_type = Boolean THEN ".1%"
                ELSE "ValueError: Unsupported data type"
    IN  [spec |-> IF sign THEN "+" \o spec ELSE spec, x |-> x]

\* The tooltip of a badge: its sentence and the p-value it quotes, None when
\* it quotes none.
Tooltip(stat, p_value) == [stat |-> stat, p_value |-> p_value]

\* fmt_treatment_badge with its two thresholds exchanged.
fmt_treatment_badge_swapped(x) ==
    LET label == treatment_effect(x)
        value == fmt_metric_value(x.treatment_mean, x.score.data_type, FALSE)
        delta == fmt_metric_value(x.delta_estimate, x.score.data_type, TRUE)
        look ==
            IF label \in {"Improved", "Degraded", "Changed"}
            THEN IF Le(x.p_value, SS_THRESHOLD)
                 THEN <<label \o "Strong",
                        Tooltip("Highly statistically significant", x.p_value)>>
                 ELSE IF Le(x.p_value, HSS_THRESHOLD)
                 THEN <<label \o "Weak",
                        Tooltip("Marginally statistically significant", x.p_value)>>
                 ELSE <<"Warning", Tooltip("Unexpected classification", x.p_value)>>
            ELSE IF label = "Inconclusive"
            THEN IF Gt(x.p_value, SS_THRESHOLD)
                 THEN <<label, Tooltip("Not statistically significant", x.p_value)>>
                 ELSE <<"Warning", Tooltip("Unexpected classification", x.p_value)>>
            ELSE IF label = "Too few samples"
            THEN <<"Warning",
                   Tooltip("Insufficient observations to determine statistical significance",
                           None)>>
            ELSE <<"Warning",
                   Tooltip("Zero observations might indicate a problem with data collection",
                           None)>>
    IN  [label |-> label, value |-> value, delta |-> delta,
         color |-> look[1], tooltip |-> look[2]]

\* fmt_treatment_badge: the label, the message (value and delta), the colour
\* and the tooltip of the badge.  treatment_effect returns one of its six
\* literals, so the final else of the function is not modelled.
fmt_treatment_badge(x) ==
    LET label == treatment_effect(x)
        value == fmt_metric_value(x.treatment_mean, x.score.data_type, FALSE)
        delta == fmt_metric_value(x.delta_estimate, x.score.data_type, TRUE)
        look ==
            IF label \in {"Improved", "Degraded", "Changed"}
            THEN IF Le(x.p_value, HSS_THRESHOLD)
                 THEN <<label \o "Strong",
                        Tooltip("Highly statistically significant", x.p_value)>>
                 ELSE IF Le(x.p_value, SS_THRESHOLD)
                 THEN <<label \o "Weak",
                        Tooltip("Marginally statistically significant", x.p_value)>>
                 ELSE <<"Warning", Tooltip("Unexpected classification", x.p_value)>>
            ELSE IF label = "Inconclusive"
            THEN IF Gt(x.p_value, SS_THRESHOLD)
                 THEN <<label, Tooltip("Not statistically significant", x.p_value)>>
                 ELSE <<"Warning", Tooltip("Unexpected classification", x.p_value)>>
            ELSE IF label = "Too few samples"
            THEN <<"Warning",
                   Tooltip("Insufficient observations to determine statistical significance",
                           None)>>
            ELSE <<"Warning",
                   Tooltip("Zero observations might indicate a problem with data collection",
                           None)>>
    IN  [label |-> label, value |-> value, delta |-> delta,
         color |-> look[1], tooltip |-> look[2]]

\* fmt_ci with the sample count looked at before the bounds.
fmt_ci_count_first(x) ==
    IF x.count < 10 THEN [text |-> "Too few samples"]
    ELSE IF x.ci_lower = None \/ x.ci_upper = None THEN [text |-> "n/a"]
    ELSE [text |-> "(lower, upper)",
          lower |-> fmt_metric_value(x.ci_lower, x.score.data_type, FALSE),
          upper |-> fmt_metric_value(x.ci_upper, x.score.data_type, FALSE)]

\* fmt_ci: the text, or the two formatted bounds of f"({md_lower}, {md_upper})".
fmt_ci(x) ==
    IF x.ci_lower = None \/ x.ci_upper = None THEN [text |-> "n/a"]
    ELSE IF x.count < 10 THEN [text |-> "Too few samples"]
    ELSE [text |-> "(lower, upper)",
          lower |-> fmt_metric_value(x.ci_lower, x.score.data_type, FALSE),
          upper |-> fmt_metric_value(x.ci_upper, x.score.data_type, FALSE)]

InitCells ==
    /\ arg = NoArg
    /\ made = NoResult
    /\ results \in {PairedResults(c) : c \in PairCounts}
    /\ call = NoCall
    /\ ci = NoCI
    /\ cmp = NoComparison
    /\ effect = "unread"
    /\ err = "ok"
    /\ fmt = [pc |-> "idle"]
    /\ retry = Off
    /\ valid = Off
    /\ conv = Off
    /\ view = Off
    /\ pv = Off
    /\ tab = Off
    /\ rep = Off

\* fmt_treatment_badge(cmp) on the Comparison in hand.
FmtTreatmentBadge ==
    /\ fmt.pc = "idle"
    /\ cmp # NoComparison
    /\ fmt' = [pc |-> "badge", out |-> fmt_treatment_badge(cmp)]
    /\ UNCHANGED engine
    /\ UNCHANGED <<retry, valid, conv, view, pv, tab, rep>>

\* fmt_ci(ci) on the confidence interval in hand.
FmtCI ==
    /\ fmt.pc = "idle"
    /\ ci # NoCI
    /\ fmt' = [pc |-> "ci", out |-> fmt_ci(ci)]
    /\ UNCHANGED engine
    /\ UNCHANGED <<retry, valid, conv, view, pv, tab, rep>>

\* The cell is done (or its score has failed): the table builder goes on to
\* its next cell with no derived object in hand.
NextCell ==
    /\ ~Idle
    /\ call' = NoCall
    /\ ci' = NoCI
    /\ cmp' = NoComparison
    /\ effect' = "unread"
    /\ err' = "ok"
    /\ fmt' = [pc |-> "idle"]
    /\ UNCHANGED <<arg, made, results>>
    /\ UNCHANGED <<retry, valid, conv, view, pv, tab, rep>>

NextCells ==
    \/ \E a \in Roles, score \in EvaluationScore : ComputeCI(a, score)
    \/ \E b \in Roles, score \in EvaluationScore : Compare(b, score)
    \/ FmtTreatmentBadge
    \/ FmtCI
    \/ NextCell

SpecCells == InitCells /\ [][NextCells]_vars

(***************************************************************************)
(* Properties.                                                             *)
(***************************************************************************)
IdSet(df) == {df.rows[i].id : i \in 1..Len(df.rows)}
Sign(a) == IF a.num > 0 THEN 1 ELSE IF a.num < 0 THEN -1 ELSE 0
Constructed == err # "pending"
Compared == call.op = "compare"
CIComputed == call.op = "ci"
Control == results.control
Treatment == results[call.b]
HasScore(r) == COL_SCORE \in r.df_result.cols
SizeLabels == {"Zero samples", "Too few samples"}
EffectRead == effect # "unread"

\* C1: the constructor of EvaluationResult raises exactly when the variant is
\* None or empty, the table has no rows, the table has no inputs.id column, or
\* two rows share an inputs.id value; every EvaluationResult that exists has a
\* non-empty variant, at least one row and pairwise distinct identities.
C1_Rejected(a) ==
    \/ a.variant = NONE
    \/ a.variant = ""
    \/ Len(a.df_result.rows) = 0
    \/ TEST_ID \notin a.df_result.cols
    \/ \E i, j \in 1..Len(a.df_result.rows) :
          i # j /\ a.df_result.rows[i].id = a.df_result.rows[j].id
C1_ConstructionValidates ==
    Constructed =>
        /\ (err # "ok") <=> C1_Rejected(arg)
        /\ (made = NoResult) <=> (err # "ok")
        /\ made # NoResult =>
              /\ made.variant \notin {NONE, ""}
              /\ made.df_result = arg.df_result
              /\ Len(made.df_result.rows) >= 1
              /\ Cardinality(IdSet(made.df_result)) = Len(made.df_result.rows)
C1_Witness ==
    /\ Constructed
    /\ arg.variant = "base"
    /\ Len(arg.df_result.rows) = MaxRows
    /\ TEST_ID \in arg.df_result.cols
    /\ Cardinality(IdSet(arg.df_result)) < Len(arg.df_result.rows)
    /\ err = "inputs.id column must be unique"
    /\ made = NoResult

\* C2: when both results hold the score column and their identity sets differ,
\* the comparison raises "Variants have unmatched evaluation results" and no
\* Comparison is produced.
C2_UnmatchedRaises ==
    (/\ Compared
     /\ HasScore(Control) /\ HasScore(Treatment)
     /\ IdSet(Control.df_result) # IdSet(Treatment.df_result))
    => /\ err = "ValueError: Variants have unmatched evaluation results"
       /\ cmp = NoComparison
C2_Witness ==
    /\ Compared
    /\ HasScore(Control) /\ HasScore(Treatment)
    /\ IdSet(Control.df_result) # IdSet(Treatment.df_result)
    /\ IdSet(Control.df_result) \cap IdSet(Treatment.df_result) # {}
    /\ ~isnull_any(Column(Control.df_result))
    /\ ~isnull_any(Column(Treatment.df_result))
    /\ err = "ValueError: Variants have unmatched evaluation results"

\* C3: treatment_effect checks the size first: below 10 paired samples it is
\* "Too few samples" ("Zero samples" at 0) whatever the p-value and the data
\* type; from 10 on it is neither, and it is "Inconclusive" whenever the
\* p-value is NaN or greater than 0.05.
C3_SizeFirst ==
    EffectRead =>
        /\ cmp.count = 0 => effect = "Zero samples"
        /\ (cmp.count > 0 /\ cmp.count < SAMPLE_SIZE_THRESHOLD)
              => effect = "Too few samples"
        /\ cmp.count >= SAMPLE_SIZE_THRESHOLD =>
              /\ effect \notin SizeLabels
              /\ (isnan(cmp.p_value) \/ Gt(cmp.p_value, Alpha))
                    => effect = "Inconclusive"
C3_Witness ==
    /\ EffectRead
    /\ cmp.count = SAMPLE_SIZE_THRESHOLD - 1
    /\ Eq(cmp.p_value, Zero)
    /\ effect = "Too few samples"

\* C4: with at least 10 paired samples and a p-value that is a number <= 0.05,
\* treatment_effect is "Changed" for Neutral, "Improved" for Increase with a
\* higher treatment mean or Decrease with a lower treatment mean, and
\* "Degraded" otherwise.
C4_Expected(x) ==
    IF x.score.desired_direction = Neutral THEN "Changed"
    ELSE IF x.score.desired_direction = Increase
            /\ Gt(x.treatment_mean, x.control_mean) THEN "Improved"
    ELSE IF x.score.desired_direction = Decrease
            /\ Lt(x.treatment_mean, x.control_mean) THEN "Improved"
    ELSE "Degraded"
C4_SignificantClassification ==
    (/\ EffectRead
     /\ cmp.count >= SAMPLE_SIZE_THRESHOLD
     /\ Le(cmp.p_value, Alpha))
    => effect = C4_Expected(cmp)
C4_Witness ==
    /\ EffectRead
    /\ cmp.count >= SAMPLE_SIZE_THRESHOLD
    /\ Le(cmp.p_value, Alpha)
    /\ cmp.score.desired_direction = Decrease
    /\ Lt(cmp.treatment_mean, cmp.control_mean)
    /\ effect = "Improved"

\* C5 as stated: 9 paired samples give "Too few samples", and 10 paired samples
\* with a p-value of exactly 0.05 give "Inconclusive".
C5_Original ==
    EffectRead =>
        /\ cmp.count = SAMPLE_SIZE_THRESHOLD - 1 => effect = "Too few samples"
        /\ (cmp.count = SAMPLE_SIZE_THRESHOLD /\ Eq(cmp.p_value, Alpha))
              => effect = "Inconclusive"
\* C5 as amended: 9 paired samples give "Too few samples"; 10 paired samples
\* with a p-value of exactly 0.05 are significant (Changed, Improved or
\* Degraded by the desired direction), and "Inconclusive" needs a p-value
\* strictly greater than 0.05.
C5_Boundary ==
    EffectRead =>
        /\ cmp.count = SAMPLE_SIZE_THRESHOLD - 1 => effect = "Too few samples"
        /\ (cmp.count = SAMPLE_SIZE_THRESHOLD /\ Eq(cmp.p_value, Alpha))
              => /\ effect \in {"Changed", "Improved", "Degraded"}
                 /\ effect = C4_Expected(cmp)
        /\ (cmp.count = SAMPLE_SIZE_THRESHOLD /\ Gt(cmp.p_value, Alpha))
              => effect = "Inconclusive"
C5_Witness ==
    /\ EffectRead
    /\ cmp.count = SAMPLE_SIZE_THRESHOLD
    /\ Eq(cmp.p_value, Alpha)
    /\ effect = "Improved"

\* C6: a result compared with itself (score column present, nothing missing)
\* always yields a Comparison with delta_estimate = 0 and, for continuous and
\* ordinal scores, p_value = 1.0.
C6_SelfComparison ==
    (/\ Compared
     /\ call.b = "control"
     /\ HasScore(Control)
     /\ ~isnull_any(Column(Control.df_result)))
    => /\ err = "ok"
       /\ cmp # NoComparison
       /\ Eq(cmp.delta_estimate, Zero)
       /\ cmp.score.data_type \in {Continuous, Ordinal} => cmp.p_value = One
C6_Witness ==
    /\ Compared
    /\ call.b = "control"
    /\ err = "ok"
    /\ cmp.score.data_type = Continuous
    /\ cmp.count = MaxRows
    /\ Gt(cmp.control_mean, Zero)
    /\ Spread(Column(Control.df_result)) # 0
    /\ cmp.p_value = One

\* C7: treatment_effect is a function of (paired count, p-value, desired
\* direction, sign of delta) alone: every Comparison that agrees with the one
\* read on these four has the same classification; and a read changes no
\* attribute, a further read returning the same value.
C7_SameKey(x, y) ==
    /\ x.count = y.count
    /\ x.p_value = y.p_value
    /\ x.score.desired_direction = y.score.desired_direction
    /\ Sign(x.delta_estimate) = Sign(y.delta_estimate)
C7_FunctionOfKey ==
    EffectRead =>
        \A y \in FreeComparisons : C7_SameKey(cmp, y) => treatment_effect(y) = effect
C7_ReadIsPure ==
    (effect' # "unread") => (cmp' = cmp /\ (EffectRead => effect' = effect))
C7_Deterministic == []C7_FunctionOfKey /\ [][C7_ReadIsPure]_vars
C7_Witness ==
    /\ EffectRead
    /\ effect = "Degraded"
    /\ \E y \in FreeComparisons :
          /\ C7_SameKey(cmp, y)
          /\ y.score.data_type # cmp.score.data_type
          /\ y.control_mean # cmp.control_mean

\* C8 as stated: every confidence interval of a boolean or continuous score
\* has ci_lower <= mean <= ci_upper, whatever the row count (read here on the
\* score columns that hold no missing value, the reading most favourable to
\* the claim).
C8_Original ==
    (/\ CIComputed
     /\ err = "ok"
     /\ ~isnull_any(Column(results[call.a].df_result))
     /\ ci.score.data_type \in {Boolean, Continuous})
    => /\ Le(ci.ci_lower, ci.mean)
       /\ Le(ci.mean, ci.ci_upper)
\* C8 as amended: ci_lower <= mean <= ci_upper holds for every boolean score
\* and for every continuous score whose column holds at least two values that
\* are not missing; with fewer (a single-row result) the continuous bounds are
\* NaN and compare with nothing.
C8_Applies ==
    /\ CIComputed
    /\ err = "ok"
    /\ \/ ci.score.data_type = Boolean
       \/ /\ ci.score.data_type = Continuous
          /\ count_nonnull(results[call.a]) >= 2
C8_Degenerate ==
    /\ CIComputed
    /\ err = "ok"
    /\ ci.score.data_type = Continuous
    /\ count_nonnull(results[call.a]) < 2
C8_IntervalContainsMean ==
    /\ C8_Applies => (Le(ci.ci_lower, ci.mean) /\ Le(ci.mean, ci.ci_upper))
    /\ C8_Degenerate => (isnan(ci.ci_lower) /\ isnan(ci.ci_upper))
C8_Witness ==
    /\ C8_Applies
    /\ ci.score.data_type = Continuous
    /\ Lt(ci.ci_lower, ci.mean)
    /\ Lt(ci.mean, ci.ci_upper)

\* C9: a comparison raises whenever the score column of the control or of the
\* treatment holds a missing value, so every Comparison that exists was
\* computed over complete columns.
C9_MissingRaises ==
    /\ (/\ Compared
        /\ HasScore(Control) /\ HasScore(Treatment)
        /\ \/ isnull_any(Column(Control.df_result))
           \/ isnull_any(Column(Treatment.df_result)))
       => (err # "ok" /\ cmp = NoComparison)
    /\ cmp # NoComparison
       => /\ ~isnull_any(Column(Control.df_result))
          /\ ~isnull_any(Column(Treatment.df_result))
C9_Witness ==
    /\ Compared
    /\ call.b = "treatment"
    /\ ~isnull_any(Column(Control.df_result))
    /\ isnull_any(Column(Treatment.df_result))
    /\ IdSet(Control.df_result) = IdSet(Treatment.df_result)
    /\ err = "ValueError: Variants have NaN evaluation results"
    /\ cmp = NoComparison

\* C10: for all three data types the count of a confidence interval is the
\* number of rows of the result's table, rows with a missing score included.
C10_CountIsRowCount ==
    (CIComputed /\ err = "ok")
    => ci.count = Len(results[call.a].df_result.rows)
C10_Witness ==
    /\ CIComputed
    /\ err = "ok"
    /\ isnull_any(Column(results[call.a].df_result))
    /\ ci.count = MaxRows
    /\ count_nonnull(results[call.a]) < ci.count

Attempts == Len(retry.runs)
Sleeps == Len(retry.sleeps)
Ended == retry.pc \in {"returned", "raised"}
RateLimited(i) ==
    retry.runs[i].status # COMPLETED /\ retry.runs[i].last_error = RATE_LIMIT

\* C14: when the first k attempts (1 <= k <= 4) fail with rate_limit_exceeded
\* and attempt k + 1 completes, the function returns after exactly k + 1
\* attempts and k sleeps; sleep i (from 0) comes between attempts i + 1 and
\* i + 2 and lasts between 2 * 2^i and 2 * 2^i + 0.5 seconds.
C14_Backoff ==
    /\ \A i \in 1..Sleeps :
          /\ Ge(retry.sleeps[i], Rat(2 * Pow2(i - 1), 1))
          /\ Le(retry.sleeps[i], Add(Rat(2 * Pow2(i - 1), 1), Rat(1, 2)))
          /\ i <= Attempts
          /\ RateLimited(i)
    /\ Sleeps <= Attempts
    /\ Attempts <= Sleeps + 1
    /\ retry.pc = "sleep" => Sleeps = Attempts
    /\ \A k \in 1..(max_retries - 1) :
          (/\ Ended
           /\ Attempts >= k + 1
           /\ \A i \in 1..k : RateLimited(i)
           /\ retry.runs[k + 1].status = COMPLETED)
          => /\ retry.pc = "returned"
             /\ Attempts = k + 1
             /\ Sleeps = k
C14_Witness ==
    /\ retry.pc = "returned"
    /\ Attempts = max_retries
    /\ Sleeps = max_retries - 1
    /\ \A i \in 1..(max_retries - 1) : RateLimited(i)
    /\ Eq(retry.sleeps[max_retries - 1], Rat(65, 4))

\* C15: when every attempt fails with rate_limit_exceeded the function makes
\* exactly 5 attempts and 4 sleeps and then raises ValueError; no execution
\* makes more than 5 attempts or 4 sleeps, and every execution ends in a
\* return or a raise.
C15_Bounded ==
    /\ Attempts <= max_retries
    /\ Sleeps <= max_retries - 1
    /\ (Ended /\ \A i \in 1..Attempts : RateLimited(i))
          => /\ Attempts = max_retries
             /\ Sleeps = max_retries - 1
             /\ retry.pc = "raised"
             /\ retry.raised = "ValueError"
C15_Terminates == []C15_Bounded /\ <>Ended
C15_Witness ==
    /\ retry.pc = "raised"
    /\ Attempts = max_retries
    /\ \A i \in 1..Attempts : RateLimited(i)
    /\ retry.raised = "ValueError"

\* C16: an attempt that ends in a status other than COMPLETED for a reason
\* other than a rate limit (another error code, or no error record at all)
\* makes the function raise ValueError at that attempt, with no sleep and no
\* further attempt after it.
C16_OtherFailureRaises ==
    (/\ Attempts >= 1
     /\ retry.runs[Attempts].status # COMPLETED
     /\ retry.runs[Attempts].last_error # RATE_LIMIT)
    => /\ retry.pc = "raised"
       /\ retry.raised = "ValueError"
       /\ Sleeps = Attempts - 1

\* C12: a score of the OperationalMetricsEvaluator is included in every view;
\* any other score is included always in view ALL, in view DEFAULT exactly
\* when its type is Boolean and in view RAW_SCORES exactly when it is not; so
\* for a score that is not operational the DEFAULT and RAW_SCORES selections
\* are disjoint and their union is the ALL selection.
C12_In(v) == should_include_score(view.score, view.evaluator, v)
C12_ViewPolicy ==
    view.pc = "done" =>
        /\ view.evaluator.class = OPERATIONAL => view.included
        /\ view.evaluator.class # OPERATIONAL =>
              /\ view.result_view = ALL => view.included
              /\ view.result_view = DEFAULT =>
                    (view.included <=> view.score.type = Boolean)
              /\ view.result_view = RAW_SCORES =>
                    (view.included <=> view.score.type # Boolean)
              /\ ~(C12_In(DEFAULT) /\ C12_In(RAW_SCORES))
              /\ (C12_In(DEFAULT) \/ C12_In(RAW_SCORES)) <=> C12_In(ALL)
C12_Witness ==
    /\ view.pc = "done"
    /\ view.evaluator.class = "FluencyEvaluator"
    /\ view.score.type = Ordinal
    /\ view.result_view = DEFAULT
    /\ ~view.included

Converted == conv.pc = "done"
Direction(key) == available_scores(conv.eval_metadata, key).desired_direction
IsWord(cell, word) == cell.t = "str" /\ lower(cell.v) = word

\* C13: in every row, under every outputs key the metadata lists, a string
\* equal to "pass" in any letter case becomes True when the desired direction
\* is Increase and False when it is Decrease, a string equal to "fail" becomes
\* the opposite boolean, and "pass" and "fail" of one score never become the
\* same value.
C13_PassFail ==
    (Converted /\ conv.calls = 1) =>
        \A i \in 1..Len(conv.given) : \A key \in {KEY_UP, KEY_DOWN} :
            LET before == conv.given[i][key]
                after == conv.rows[i][key]
            IN  /\ (IsWord(before, "pass") /\ Direction(key) = Increase)
                      => after = Bool(TRUE)
                /\ (IsWord(before, "pass") /\ Direction(key) = Decrease)
                      => after = Bool(FALSE)
                /\ (IsWord(before, "fail") /\ Direction(key) = Increase)
                      => after = Bool(FALSE)
                /\ (IsWord(before, "fail") /\ Direction(key) = Decrease)
                      => after = Bool(TRUE)
                /\ \A j \in 1..Len(conv.given) :
                      (IsWord(before, "pass") /\ IsWord(conv.given[j][key], "fail"))
                         => /\ after.t = "bool"
                            /\ conv.rows[j][key].t = "bool"
                            /\ after # conv.rows[j][key]
C13_Witness ==
    /\ Converted
    /\ conv.calls = 1
    /\ Len(conv.given) = MaxEvalRows
    /\ Direction(KEY_DOWN) = Decrease
    /\ conv.given[1][KEY_DOWN] = Str("PASS")
    /\ conv.given[MaxEvalRows][KEY_DOWN] = Str("Fail")
    /\ conv.rows[1][KEY_DOWN] = Bool(FALSE)
    /\ conv.rows[MaxEvalRows][KEY_DOWN] = Bool(TRUE)
    /\ conv.given[1][KEY_UP] = Str("pass")
    /\ conv.rows[1][KEY_UP] = Bool(TRUE)

Validated == valid.pc = "done"
ItemsOf(d) == d.data.l
Listed(name) ==
    /\ name.t = "str"
    /\ name.v \in {"FluencyEvaluator", "ViolenceEvaluator", "F1ScoreEvaluator"}

\* C17: validate_input_data returns normally exactly when 'name' is a string,
\* 'evaluators' is a list, 'data' is a non-empty list, every item is a dict
\* with a 'query' field, no two items carry the same 'id' (items without one
\* are allowed in any number) and every evaluator listed is a class of the
\* metadata or 'OperationalMetricsEvaluator'; otherwise it raises ValueError;
\* either way the input data is left as it was.  The code breaks it: an item
\* whose 'id' is a list, an evaluator that is no string and an input that is
\* a number end in TypeError.
C17_Acceptable(d) ==
    /\ d.name.t = "str"
    /\ d.evaluators.t = "list"
    /\ d.data.t = "list"
    /\ Len(ItemsOf(d)) >= 1
    /\ \A i \in 1..Len(ItemsOf(d)) :
          /\ ItemsOf(d)[i].t = "dict"
          /\ "query" \in ItemsOf(d)[i].keys
    /\ \A i, j \in 1..Len(ItemsOf(d)) :
          (/\ i # j
           /\ "id" \in ItemsOf(d)[i].keys
           /\ "id" \in ItemsOf(d)[j].keys)
          => ItemsOf(d)[i].id # ItemsOf(d)[j].id
    /\ \A i \in 1..Len(d.evaluators.l) :
          Listed(d.evaluators.l[i]) \/ d.evaluators.l[i] = JName("str", OPERATIONAL)
C17_Verdict ==
    Validated =>
        /\ (valid.raised = "ok") <=> C17_Acceptable(valid.data)
        /\ valid.raised # "ok" =>
              valid.raised \in
                 {"ValueError: Input data is missing required fields",
                  "ValueError: Input data 'name' must be a string",
                  "ValueError: Input data 'evaluators' must be a list",
                  "ValueError: Input data 'data' must be a list",
                  "ValueError: Input data 'data' list cannot be empty",
                  "ValueError: Item in 'data' must be a dictionary",
                  "ValueError: Item in 'data' is missing required field 'query'",
                  "ValueError: Duplicate ID found in 'data'",
                  "ValueError: Unknown evaluators specified"}
C17_Validation == []C17_Verdict /\ [][valid'.data = valid.data]_vars

\* The number of identities with cell a in the control and b in the treatment.
Pairs(a, b) ==
    Cardinality({i \in IdSet(Control.df_result) :
        /\ \E k \in 1..Len(Control.df_result.rows) :
              Control.df_result.rows[k] = [id |-> i, score |-> a]
        /\ \E k \in 1..Len(Treatment.df_result.rows) :
              Treatment.df_result.rows[k] = [id |-> i, score |-> b]})
RECURSIVE Factorial(_)
Factorial(n) == IF n = 0 THEN 1 ELSE n * Factorial(n - 1)
Binomial(n, k) == Factorial(n) \div (Factorial(k) * Factorial(n - k))
RECURSIVE BinomialSum(_, _)
BinomialSum(n, k) ==
    IF k < 0 THEN 0 ELSE Binomial(n, k) + BinomialSum(n, k - 1)
BooleanCompared ==
    /\ Compared
    /\ call.score.data_type = Boolean
    /\ err = "ok"

\* C19: for a boolean score the p-value is the mid-p McNemar value of the
\* discordant pair counts n01 (control False, treatment True) and n10 (control
\* True, treatment False), n = n01 + n10:
\* p = (2 * sum_{i = 0..min(n01, n10)} C(n, i) - C(n, n01)) / 2^n, whatever the
\* number of concordant pairs; for n01 = 7, n10 = 1 it is 10/256 and the
\* 10-pair comparison with desired direction Increase is 'Improved'.
C19_MidP ==
    BooleanCompared =>
        LET n01 == Pairs(FalseCell, TrueCell)
            n10 == Pairs(TrueCell, FalseCell)
            n == n01 + n10
        IN  /\ IsNum(cmp.p_value)
            /\ cmp.p_value.num * 2^n
                  = (2 * BinomialSum(n, Min(n01, n10)) - Binomial(n, n01))
                       * cmp.p_value.den
            /\ (n01 = 7 /\ n10 = 1) =>
                  /\ cmp.p_value.num * 256 = 10 * cmp.p_value.den
                  /\ (/\ EffectRead
                      /\ cmp.count = 10
                      /\ call.score.desired_direction = Increase)
                     => effect = "Improved"
C19_Witness ==
    /\ BooleanCompared
    /\ EffectRead
    /\ Pairs(FalseCell, TrueCell) = 7
    /\ Pairs(TrueCell, FalseCell) = 1
    /\ Pairs(TrueCell, TrueCell) = 2
    /\ cmp.count = 10
    /\ call.score.desired_direction = Increase
    /\ effect = "Improved"

Formatted == pv.pc = "done" /\ pv.x.kind = "num"
DigitChars == {"0", "1", "2", "3", "4", "5", "6", "7", "8", "9"}
DigitValue(c) == CHOOSE d \in 0..9 : Digit(d) = c
RECURSIVE ToNat(_)
ToNat(s) ==
    IF s = <<>> THEN 0
    ELSE 10 * ToNat(SubSeq(s, 1, Len(s) - 1)) + DigitValue(s[Len(s)])
AllDigits(s) == \A i \in 1..Len(s) : s[i] \in DigitChars

\* The number n * 10^-e is within half a unit of its last place of x.
RoundsTo(x, n, e) ==
    IF e >= x.exp
    THEN Abs(2 * x.mant * Pow10(e - x.exp) - 2 * n) <= 1
    ELSE Abs(2 * x.mant - 2 * n * Pow10(x.exp - e)) <= Pow10(x.exp - e)

\* C20: fmt_pvalue renders 0 as the approximately-equal sign followed by "0";
\* a p-value strictly between 0 and 0.001 in scientific notation with one
\* significant digit and an exponent without leading zero (0.0001 is "1e-4");
\* a p-value from 0.001 up to 1 with exactly three decimals (0.034 is "0.034").
C20_Rendering ==
    Formatted =>
        LET x == pv.x
            t == pv.text
        IN  /\ x.mant = 0 => t = <<ALMOST_EQUAL, "0">>
            /\ (x.mant > 0 /\ LtThousandth(x)) =>
                  /\ Len(t) >= 4
                  /\ t[1] \in DigitChars \ {"0"}
                  /\ t[2] = "e"
                  /\ t[3] = "-"
                  /\ AllDigits(SubSeq(t, 4, Len(t)))
                  /\ t[4] # "0"
                  /\ RoundsTo(x, DigitValue(t[1]), ToNat(SubSeq(t, 4, Len(t))))
            /\ (x.mant > 0 /\ ~LtThousandth(x)) =>
                  /\ Len(t) = 5
                  /\ t[1] \in {"0", "1"}
                  /\ t[2] = "."
                  /\ AllDigits(SubSeq(t, 3, 5))
                  /\ RoundsTo(x, ToNat(<<t[1]>> \o SubSeq(t, 3, 5)), 3)
            /\ x = Dec(1, 4) => t = <<"1", "e", "-", "4">>
            /\ x = Dec(34, 3) => t = <<"0", ".", "0", "3", "4">>
C20_Witness ==
    /\ Formatted
    /\ pv.x = Dec(96, 5)
    /\ pv.text = <<"1", "e", "-", "3">>

TableBuilt == tab.pc = "done"
\* The try block of score i of the table in hand ends without an error.
RowSucceeds(i) ==
    IF tab.fn = "ci"
    THEN ci_error(results.control, tab.scores[i]) = "ok"
    ELSE \A v \in Roles :
            comparison_error(results.control, results[v], tab.scores[i]) = "ok"
RECURSIVE NamesFrom(_)
NamesFrom(i) ==
    IF i > Len(tab.scores) THEN <<>>
    ELSE (IF RowSucceeds(i) THEN <<tab.scores[i].name>> ELSE <<>>)
            \o NamesFrom(i + 1)

\* C11: fmt_table_compare and fmt_table_ci, given at least one score, never
\* propagate a failure of one score's comparison or confidence interval
\* (missing score column, unmatched pairing, missing values, unsupported data
\* type or any other error of that row): the row is skipped and the rows of
\* the other scores are rendered in the order of the score list.
C11_RowFailuresContained ==
    (TableBuilt /\ Len(tab.scores) >= 1) =>
        /\ tab.raised = NONE
        /\ [i \in 1..Len(tab.records) |-> tab.records[i].score] = NamesFrom(1)

Reported == rep.pc = "done" /\ rep.out.raised = NONE
\* The position of a section name, and of a score name, in the metadata.
SectionIndex(name) ==
    CHOOSE i \in 1..Len(SummaryMetadata.sections) :
        SummaryMetadata.sections[i].name = name
ScoreNames ==
    Concat([i \in 1..Len(SummaryMetadata.sections) |->
        Concat([j \in 1..Len(SummaryMetadata.sections[i].evaluators) |->
            [k \in 1..Len(SummaryMetadata.sections[i].evaluators[j].scores) |->
                SummaryMetadata.sections[i].evaluators[j].scores[k].name]])])
ScoreIndex(name) == CHOOSE i \in 1..Len(ScoreNames) : ScoreNames[i] = name

\* C18: in every report summarize produces, the baseline agent's row is the
\* first of the agent-variants table and every other agent appears exactly
\* once after it; in every row of a comparison table the baseline's cell
\* comes before the cells of all other variants; sections and score rows
\* appear in the order of the metadata's sections, evaluators and scores.
C18_Order ==
    Reported =>
        LET g == rep.given
            rows == rep.out.agent_rows
            secs == rep.out.sections
        IN  /\ rows[1] = g.baseline
            /\ Len(rows) = Len(g.agents)
            /\ \A k \in 1..Len(g.agents) :
                  Cardinality({i \in 1..Len(rows) : rows[i] = g.agents[k]}) = 1
            /\ \A s \in 1..Len(secs) : \A r \in 1..Len(secs[s].rows) :
                  LET cols == secs[s].rows[r].columns
                  IN  Len(g.agents) >= 2 =>
                         /\ Len(cols) = Len(g.agents) + 1
                         /\ cols[2] = AgentNames[g.baseline]
                         /\ \A k \in 1..Len(g.agents) :
                               g.agents[k] # g.baseline =>
                                  \E c \in 3..Len(cols) : cols[c] = AgentNames[g.agents[k]]
            /\ \A s, t \in 1..Len(secs) :
                  s < t => SectionIndex(secs[s].section) < SectionIndex(secs[t].section)
            /\ \A s \in 1..Len(secs) : \A r, q \in 1..Len(secs[s].rows) :
                  r < q => ScoreIndex(secs[s].rows[r].score)
                              < ScoreIndex(secs[s].rows[q].score)
            /\ \A s, t \in 1..Len(secs) :
                  \A r \in 1..Len(secs[s].rows), q \in 1..Len(secs[t].rows) :
                     s < t => ScoreIndex(secs[s].rows[r].score)
                                 < ScoreIndex(secs[t].rows[q].score)
C18_Witness ==
    /\ Reported
    /\ Len(rep.given.agents) = MaxAgents
    /\ rep.given.baseline = rep.given.agents[MaxAgents]
    /\ Len(rep.out.sections) >= 2
    /\ Len(rep.out.sections[1].rows) >= 2
    /\ rep.out.agent_rows[1] = rep.given.baseline

\* C21: a confidence interval or a comparison, whether it succeeds or raises,
\* leaves the EvaluationResult objects as they were (variant, table, URL), so
\* after any sequence of computations the outcome of the one in hand is the
\* outcome it has on the results as first given.
C21_OutcomeOfInputs ==
    /\ CIComputed =>
          /\ err = "ok" <=>
                /\ HasScore(results[call.a])
                /\ (call.score.data_type = Boolean =>
                      /\ \A i \in 1..Len(results[call.a].df_result.rows) :
                            results[call.a].df_result.rows[i].score
                               \in {FalseCell, TrueCell, Missing}
                      /\ \E i \in 1..Len(results[call.a].df_result.rows) :
                            results[call.a].df_result.rows[i].score # Missing)
          /\ err = "ok" => ci.variant = results[call.a].variant
    /\ Compared =>
          /\ err = "ok" <=>
                /\ HasScore(Control) /\ HasScore(Treatment)
                /\ IdSet(Control.df_result) = IdSet(Treatment.df_result)
                /\ ~isnull_any(Column(Control.df_result))
                /\ ~isnull_any(Column(Treatment.df_result))
          /\ err = "ok" => /\ cmp.control_variant = Control.variant
                           /\ cmp.treatment_variant = Treatment.variant
                           /\ cmp.count = Len(Control.df_result.rows)
C21_InputsKept == results' = results
C21_ReadOnly == []C21_OutcomeOfInputs /\ [][C21_InputsKept]_vars
C21_Witness ==
    /\ Compared
    /\ call.b = "treatment"
    /\ err = "ValueError: Variants have unmatched evaluation results"
    /\ results.control \in WellFormed("base")
    /\ results.treatment \in WellFormed("new")
    /\ Len(results.control.df_result.rows) = MaxRows

\* C27: the check after the retry loop never fires: control is past the loop
\* only when the last attempt's run is COMPLETED (an attempt that is not
\* COMPLETED is followed by a sleep and another attempt, or raises inside the
\* loop), so 'Failed to complete run after 5 attempts' is never raised.
C27_CheckNeverFires ==
    /\ retry.pc \in {"after", "returned"} =>
          /\ Attempts >= 1
          /\ retry.runs[Attempts].status = COMPLETED
          /\ \A i \in 1..(Attempts - 1) : retry.runs[i].status # COMPLETED
    /\ retry.pc = "sleep" => Attempts < max_retries
    /\ retry.message # "Failed to complete run after 5 attempts"
    /\ retry.pc = "raised" => retry.runs[Attempts].status # COMPLETED
C27_Witness ==
    /\ retry.pc = "returned"
    /\ Attempts = max_retries
    /\ Sleeps = max_retries - 1
    /\ retry.runs[max_retries].status = COMPLETED

\* The score of the row of df whose identity is id, and the per-row
\* differences (treatment minus control) of the comparison in hand.
CellOf(df, id) == df.rows[CHOOSE j \in 1..Len(df.rows) : df.rows[j].id = id].score
RowDiff(i) ==
    CellOf(Treatment.df_result, Control.df_result.rows[i].id)
       - Control.df_result.rows[i].score
PairIndex == 1..Len(Control.df_result.rows)
ContinuousCompared ==
    Compared /\ err = "ok" /\ cmp.score.data_type = Continuous
AllDiffsZero == \A i \in PairIndex : RowDiff(i) = 0
ConstantDiffs ==
    /\ Cardinality(PairIndex) >= 2
    /\ \A i, j \in PairIndex : RowDiff(i) = RowDiff(j)

\* Every row pairs the same two cells.
SamePairs ==
    \A i, j \in PairIndex :
        /\ RowDiff(i) = RowDiff(j)
        /\ Control.df_result.rows[i].score = Control.df_result.rows[j].score
\* The two columns of the comparison in hand, row by row.
ControlColumn == [i \in PairIndex |-> Control.df_result.rows[i].score]
TreatmentColumn ==
    [i \in PairIndex |-> CellOf(Treatment.df_result, Control.df_result.rows[i].id)]

\* C23 as stated: in the continuous test the branch that returns p = 0.0 is
\* never taken: for every pair of complete continuous score columns either
\* all differences are zero (p = 1.0) or the paired t-test is run, whose
\* p-value on differences that vary is NaN or positive.
C23_Original ==
    ContinuousCompared =>
        IF AllDiffsZero THEN cmp.p_value = One ELSE cmp.p_value # Zero

\* C23: in the continuous test all differences zero gives p = 1.0, and the
\* branch that returns p = 0.0 is taken when the differences are not all
\* zero and their standard deviation, computed in floating point, is exactly
\* 0.  That needs two or more pairs whose differences are one decimal
\* number; it is so whenever two rows pair the same two cells, and it is not
\* so for the columns [0.1, 0.2] and [0.2, 0.3] (0.3 - 0.2 is not 0.2 - 0.1)
\* or for three rows from 0.1 to 0.2 (the mean of three times 0.1 is not
\* 0.1), on which the t-test runs and returns a positive p-value below
\* 0.001.  In every other case the t-test runs: a single pair gives NaN, two
\* or more a probability above 0.
C23_ZeroVariance ==
    ContinuousCompared =>
        /\ AllDiffsZero => cmp.p_value = One
        /\ cmp.p_value = Zero => (ConstantDiffs /\ ~AllDiffsZero)
        /\ (SamePairs /\ ~AllDiffsZero /\ Cardinality(PairIndex) = 2)
              => cmp.p_value = Zero
        /\ (~AllDiffsZero /\ Cardinality(PairIndex) = 1) => cmp.p_value = NaN
        /\ (~AllDiffsZero /\ Cardinality(PairIndex) >= 2 /\ cmp.p_value # Zero)
              => Gt(cmp.p_value, Zero) /\ Le(cmp.p_value, One)
        /\ (ConstantDiffs /\ ~AllDiffsZero /\ cmp.p_value # Zero)
              => Lt(cmp.p_value, Rat(1, 1000))
        /\ (ControlColumn = <<1, 2>> /\ TreatmentColumn = <<2, 3>>)
              => cmp.p_value # Zero
        /\ (ControlColumn = <<1, 1, 1>> /\ TreatmentColumn = <<2, 2, 2>>)
              => cmp.p_value # Zero
C23_Witness ==
    /\ ContinuousCompared
    /\ call.b = "treatment"
    /\ ControlColumn = <<1, 1>>
    /\ TreatmentColumn = <<2, 2>>
    /\ ~AllDiffsZero
    /\ cmp.p_value = Zero

Significant(x) == x.count >= SAMPLE_SIZE_THRESHOLD /\ Le(x.p_value, Alpha)

\* C24 as stated: treatment_effect is "Degraded" only when the result is
\* significant (count >= 10, p <= 0.05) and the treatment mean is strictly
\* lower than the control mean for Increase or strictly higher for Decrease.
C24_Original ==
    (EffectRead /\ effect = "Degraded") =>
        /\ Significant(cmp)
        /\ \/ /\ cmp.score.desired_direction = Increase
              /\ Lt(cmp.treatment_mean, cmp.control_mean)
           \/ /\ cmp.score.desired_direction = Decrease
              /\ Gt(cmp.treatment_mean, cmp.control_mean)

\* C24: treatment_effect is "Degraded" only when the result is significant,
\* the desired direction is Increase or Decrease and the mean did not move
\* that way: treatment mean lower than or equal to the control mean for
\* Increase, higher than or equal for Decrease.  A significant result with
\* equal means is "Degraded" when the desired direction is Increase or
\* Decrease, and "Changed" when it is Neutral.
C24_DegradedOnly ==
    EffectRead =>
        /\ effect = "Degraded" =>
              /\ Significant(cmp)
              /\ \/ /\ cmp.score.desired_direction = Increase
                    /\ Le(cmp.treatment_mean, cmp.control_mean)
                 \/ /\ cmp.score.desired_direction = Decrease
                    /\ Ge(cmp.treatment_mean, cmp.control_mean)
        /\ (/\ Significant(cmp)
            /\ cmp.score.desired_direction \in {Increase, Decrease}
            /\ Eq(cmp.treatment_mean, cmp.control_mean)) => effect = "Degraded"
        /\ (/\ Significant(cmp)
            /\ cmp.score.desired_direction = Neutral
            /\ Eq(cmp.treatment_mean, cmp.control_mean)) => effect = "Changed"
C24_Witness ==
    /\ EffectRead
    /\ effect = "Degraded"
    /\ cmp.score.desired_direction = Decrease
    /\ Eq(cmp.treatment_mean, cmp.control_mean)
    /\ Eq(cmp.p_value, Rat(1, 1000))
    /\ cmp.count = SAMPLE_SIZE_THRESHOLD

\* C30: convert_pass_fail_to_boolean changes nothing but the pass/fail
\* strings under the outputs keys the metadata lists: the rows keep their
\* number, their order and their keys; a value that is no string, a string
\* other than pass/fail, a value under a key outside outputs and a value
\* under an outputs key the metadata does not list are as given; and a second
\* call changes nothing.
C30_Unchanged ==
    Converted =>
        /\ Len(conv.rows) = Len(conv.given)
        /\ \A i \in 1..Len(conv.given) :
              /\ DOMAIN conv.rows[i] = DOMAIN conv.given[i]
              /\ conv.rows[i][KEY_ID] = conv.given[i][KEY_ID]
              /\ conv.rows[i][KEY_FREE] = conv.given[i][KEY_FREE]
              /\ \A key \in {KEY_UP, KEY_DOWN} :
                    (~IsWord(conv.given[i][key], "pass")
                       /\ ~IsWord(conv.given[i][key], "fail"))
                    => conv.rows[i][key] = conv.given[i][key]
C30_SecondCall == conv.calls = 1 => conv'.rows = conv.rows
C30_Frame == []C30_Unchanged /\ [][C30_SecondCall]_vars
C30_Witness ==
    /\ Converted
    /\ conv.calls = 2
    /\ Len(conv.given) = MaxEvalRows
    /\ conv.given[1][KEY_FREE] = Str("pass")
    /\ conv.rows[1][KEY_FREE] = Str("pass")
    /\ conv.given[1][KEY_UP] = Str("n/a")
    /\ conv.given[1][KEY_DOWN] = Bool(TRUE)
    /\ conv.given[MaxEvalRows][KEY_UP] = Str("fail")
    /\ conv.rows[MaxEvalRows][KEY_UP] = Bool(FALSE)
    /\ conv.rows[MaxEvalRows][KEY_ID] = Str("pass")

\* C26: every Comparison constructed from two EvaluationResults has a paired
\* count equal to the row count of the control and of the treatment, and at
\* least 1; treatment_effect never returns "Zero samples" for a Comparison
\* the engine has produced.
C26_PairedCount ==
    /\ (Compared /\ err = "ok") =>
          /\ cmp.count = Len(Control.df_result.rows)
          /\ cmp.count = Len(Treatment.df_result.rows)
          /\ cmp.count >= 1
    /\ EffectRead => effect # "Zero samples"
C26_Witness ==
    /\ Compared
    /\ call.b = "treatment"
    /\ err = "ok"
    /\ EffectRead
    /\ effect = "Too few samples"
    /\ cmp.count = 1
    /\ Control.df_result.rows[1].id = MaxId

\* C29: a result compared with itself never reports a treatment effect, for
\* each of the three data types and each desired direction: the p-value is
\* 1.0, for boolean scores too (no discordant pair), and treatment_effect is
\* "Too few samples" below 10 rows and "Inconclusive" from 10 rows on.
C29_NoSelfEffect ==
    (Compared /\ call.b = "control" /\ err = "ok") =>
        /\ Eq(cmp.p_value, One)
        /\ cmp.count = Len(Control.df_result.rows)
        /\ EffectRead =>
              /\ effect \notin {"Improved", "Degraded", "Changed"}
              /\ effect = IF cmp.count < SAMPLE_SIZE_THRESHOLD
                          THEN "Too few samples" ELSE "Inconclusive"
C29_Witness ==
    /\ Compared
    /\ call.b = "control"
    /\ err = "ok"
    /\ cmp.score.data_type = Boolean
    /\ cmp.score.desired_direction = Decrease
    /\ cmp.count = SAMPLE_SIZE_THRESHOLD
    /\ Gt(cmp.control_mean, Zero)
    /\ Lt(cmp.control_mean, One)
    /\ effect = "Inconclusive"

\* A table a comparison accepts on its own, and two tables it accepts as a pair.
Complete(df) ==
    /\ COL_SCORE \in df.cols
    /\ \A i \in 1..Len(df.rows) : df.rows[i].score # Missing
Comparable(df_c, df_t) ==
    Complete(df_c) /\ Complete(df_t) /\ IdSet(df_c) = IdSet(df_t)
CompareReported == Reported /\ Len(rep.given.agents) >= 2
\* The names of the scores section s of the report asked its table for.
AskedOf(s) ==
    LET scores == eval_scores(
                     SummaryMetadata.sections[SectionIndex(rep.out.sections[s].section)],
                     rep.given.evaluators, rep.given.result_view)
    IN  [k \in 1..Len(scores) |-> scores[k].name]
RowNames(s) ==
    [r \in 1..Len(rep.out.sections[s].rows) |-> rep.out.sections[s].rows[r].score]

\* C28: a row of the table fmt_table_compare renders is all or nothing: the
\* row of a score is there exactly when the baseline's comparison with itself
\* and with every other variant succeed for that score; one failing variant
\* removes the row for all, and a row never holds the cells of a part of the
\* variants.
C28_AllOrNothing ==
    CompareReported =>
        LET g == rep.given
            base == g.tables[g.baseline]
            all_succeed ==
                \A k \in 1..Len(g.agents) : Comparable(base, g.tables[g.agents[k]])
        IN  \A s \in 1..Len(rep.out.sections) :
               /\ RowNames(s) = IF all_succeed THEN AskedOf(s) ELSE <<>>
               /\ \A r \in 1..Len(rep.out.sections[s].rows) :
                     LET cols == rep.out.sections[s].rows[r].columns
                     IN  /\ Len(cols) = Len(g.agents) + 1
                         /\ {cols[c] : c \in 2..Len(cols)}
                               = {AgentNames[g.agents[k]] : k \in 1..Len(g.agents)}
C28_Witness ==
    /\ CompareReported
    /\ Len(rep.given.agents) = MaxAgents
    /\ rep.given.baseline = rep.given.agents[1]
    /\ Comparable(rep.given.tables[rep.given.agents[1]],
                  rep.given.tables[rep.given.agents[2]])
    /\ ~Comparable(rep.given.tables[rep.given.agents[1]],
                   rep.given.tables[rep.given.agents[MaxAgents]])
    /\ Len(rep.out.sections) >= 2
    /\ \A s \in 1..Len(rep.out.sections) : rep.out.sections[s].rows = <<>>

BadgeMade == fmt.pc = "badge"
CIFormatted == fmt.pc = "ci"

\* C22: for every Comparison the engine produces, fmt_treatment_badge never
\* takes an 'Unexpected classification' branch: with treatment_effect
\* Improved, Degraded or Changed the p-value is <= 0.05 and the colour is
\* <effect>Strong for p <= 0.001 and <effect>Weak otherwise; with
\* Inconclusive the p-value compares greater than 0.05 and the colour is
\* Inconclusive; the Warning colour goes with 'Too few samples' and 'Zero
\* samples' only.
C22_BadgeConsistent ==
    BadgeMade =>
        LET b == fmt.out
            p == cmp.p_value
        IN  /\ b.tooltip.stat # "Unexpected classification"
            /\ b.label \in {"Improved", "Degraded", "Changed"} =>
                  /\ cmp.count >= SAMPLE_SIZE_THRESHOLD
                  /\ p.kind = "num"
                  /\ 20 * p.num <= p.den
                  /\ b.color = IF 1000 * p.num <= p.den
                               THEN b.label \o "Strong" ELSE b.label \o "Weak"
            /\ b.label = "Inconclusive" =>
                  /\ p.kind = "num"
                  /\ 20 * p.num > p.den
                  /\ b.color = "Inconclusive"
            /\ b.color = "Warning" <=> b.label \in {"Too few samples", "Zero samples"}
            /\ b.label = "Too few samples" <=> cmp.count < SAMPLE_SIZE_THRESHOLD
C22_Witness ==
    /\ BadgeMade
    /\ cmp.count = SAMPLE_SIZE_THRESHOLD
    /\ cmp.score.data_type = Boolean
    /\ cmp.p_value.kind = "num"
    /\ 1000 * cmp.p_value.num > cmp.p_value.den
    /\ 20 * cmp.p_value.num <= cmp.p_value.den
    /\ fmt.out.label = "Degraded"
    /\ fmt.out.color = "DegradedWeak"

\* C25: fmt_ci chooses its text by a fixed precedence: a bound that is absent
\* (always so for an ordinal score) gives 'n/a' whatever the sample count;
\* otherwise a sample count below 10 gives 'Too few samples'; otherwise the
\* text is '(lower, upper)' with both bounds formatted for the data type of
\* the score.
C25_Precedence ==
    CIFormatted =>
        LET absent == ci.ci_lower.kind = "none" \/ ci.ci_upper.kind = "none"
            spec == CASE ci.score.data_type = Ordinal -> ".2f"
                      [] ci.score.data_type = Continuous -> ".3g"
                      [] ci.score.data_type = Boolean -> ".1%"
        IN  /\ ci.score.data_type = Ordinal => absent
            /\ absent => fmt.out = [text |-> "n/a"]
            /\ (~absent /\ ci.count < 10) => fmt.out = [text |-> "Too few samples"]
            /\ (~absent /\ ci.count >= 10) =>
                  /\ fmt.out.text = "(lower, upper)"
                  /\ fmt.out.lower = [spec |-> spec, x |-> ci.ci_lower]
                  /\ fmt.out.upper = [spec |-> spec, x |-> ci.ci_upper]
C25_Witness ==
    /\ CIFormatted
    /\ ci.score.data_type = Ordinal
    /\ ci.count < 10
    /\ fmt.out = [text |-> "n/a"]
    /\ Gt(ci.mean, Zero)

=============================================================================
